---- MODULE Spec2Model ----
(***************************************************************************)
(* Cage-Board narrative generator: the data-to-narrative pipeline of       *)
(* src/src/engine.ts (parseCSV, computeStates, selectFunctions) and        *)
(* src/src/App.tsx (regime classifier, beat planner, bridges, side-quest   *)
(* path, onGenerate).                                                      *)
(*                                                                         *)
(* Numbers.  Channel values are integers counting hundredths (14 is 0.14), *)
(* so a variance is a fraction whose unit is 0.0001 and the thresholds of  *)
(* the code are whole numbers: 0.006 is 60, 0.004 is 40, 0.002 is 20,      *)
(* 0.001 is 10, 0.0008 is 8, 0.005 is 50, 0.0001 is 1; a trend of 0.01 is  *)
(* 1.  A fraction is a record [n, d] (d > 0).  Regime weights are exact    *)
(* fractions with one common denominator: [n |-> [regime -> Int], d].      *)
(* Scores of beats are integers counting hundredths (1.0 is 100).          *)
(***************************************************************************)
EXTENDS Integers, Sequences, FiniteSets, TLC

(***************************************************************************)
(* Bounds of the model.                                                    *)
(***************************************************************************)
\* longest table: number of data lines of the pasted text
MaxRows == 3
\* number of times Generate is pressed on the same input
MaxRuns == 2

(***************************************************************************)
(* Generic helpers.                                                        *)
(***************************************************************************)
Min(a, b) == IF a < b THEN a ELSE b

Max(a, b) == IF a > b THEN a ELSE b

Range(s) == {s[i] : i \in DOMAIN s}

\* Array.prototype.includes
Includes(s, x) == \E i \in DOMAIN s : s[i] = x

\* s.slice(-k): the last k elements (all of s when it is shorter)
LastK(s, k) == SubSeq(s, Max(1, Len(s) - k + 1), Len(s))

\* s.slice(0, k)
FirstK(s, k) == SubSeq(s, 1, Min(k, Len(s)))

\* Array.from(new Set(s)): first occurrences, in order
RECURSIVE Dedup(_)
Dedup(s) ==
  IF s = <<>> THEN <<>>
  ELSE LET front == Dedup(SubSeq(s, 1, Len(s) - 1))
           x == s[Len(s)]
       IN IF Includes(front, x) THEN front ELSE Append(front, x)

\* Array.prototype.filter with a membership test given as a set
RECURSIVE FilterSeq(_, _)
FilterSeq(s, keep) ==
  IF s = <<>> THEN <<>>
  ELSE IF s[1] \in keep THEN <<s[1]>> \o FilterSeq(Tail(s), keep)
       ELSE FilterSeq(Tail(s), keep)

\* obj?.key || "" : a missing key reads as the empty tag
Get(f, k) == IF k \in DOMAIN f THEN f[k] ELSE ""

(***************************************************************************)
(* Regimes, bridges and beat palettes (App.tsx 53-133).                    *)
(***************************************************************************)
REGIME_LIST == <<"horror", "trickster", "thriller", "fairytale", "shamanic">>

Regime == Range(REGIME_LIST)

\* a table without the pivot from horror to shamanic
ALLOWED_BRIDGES_NoUnderworld ==
  { <<"thriller", "trickster", "bridge.unreliable_ally">>,
    <<"fairytale", "horror", "bridge.taboo_broken">>,
    <<"trickster", "shamanic", "bridge.taboo_place_opens">>,
    <<"thriller", "horror", "bridge.dark_turn">>,
    <<"horror", "thriller", "bridge.fight_or_flee">>,
    <<"fairytale", "trickster", "bridge.rule_bent">>,
    <<"trickster", "fairytale", "bridge.bargain_matures">> }

\* (prev, next, bridge id)
ALLOWED_BRIDGES ==
  { <<"horror", "shamanic", "bridge.underworld_mouth">>,
    <<"thriller", "trickster", "bridge.unreliable_ally">>,
    <<"fairytale", "horror", "bridge.taboo_broken">>,
    <<"trickster", "shamanic", "bridge.taboo_place_opens">>,
    <<"thriller", "horror", "bridge.dark_turn">>,
    <<"horror", "thriller", "bridge.fight_or_flee">>,
    <<"fairytale", "trickster", "bridge.rule_bent">>,
    <<"trickster", "fairytale", "bridge.bargain_matures">> }

PALETTE ==
  [ horror |->
      [ movement |-> <<"fn.road_walk", "fn.trail_cut", "fn.descend">>,
        environment |-> <<"fn.noise_far", "fn.light_fails", "fn.smell_metallic">>,
        challenge |-> <<"fn.stalked", "fn.wrong_place", "fn.near_miss">>,
        support |-> <<"fn.find_marker">>,
        maintenance |-> <<"fn.repack", "fn.eat">>,
        reflection |-> <<"fn.breath_held">> ],
    trickster |->
      [ movement |-> <<"fn.road_walk", "fn.trail_cut", "fn.crossing">>,
        environment |-> <<"fn.sign_confusing", "fn.double_identity">>,
        challenge |-> <<"fn.misdirection", "fn.lost_item", "fn.bad_bargain">>,
        support |-> <<"fn.find_marker", "fn.stranger_hint">>,
        maintenance |-> <<"fn.repack", "fn.eat">>,
        reflection |-> <<"fn.joke_turns">> ],
    thriller |->
      [ movement |-> <<"fn.ascend", "fn.descend", "fn.road_walk">>,
        environment |-> <<"fn.noise_close", "fn.weather_shift", "fn.light_change">>,
        challenge |-> <<"fn.chase", "fn.obstacle", "fn.cross_danger">>,
        support |-> <<"fn.aid_sign", "fn.memory_map">>,
        maintenance |-> <<"fn.repair_boot", "fn.eat">>,
        reflection |-> <<"fn.count_distance">> ],
    fairytale |->
      [ movement |-> <<"fn.trail_cut", "fn.crossing", "fn.road_walk">>,
        environment |-> <<"fn.feast_smell", "fn.lanterns", "fn.strange_music">>,
        challenge |-> <<"fn.rule_presented", "fn.giant_block", "fn.trial_riddle">>,
        support |-> <<"fn.helper_offers", "fn.gift_small">>,
        maintenance |-> <<"fn.repack", "fn.eat">>,
        reflection |-> <<"fn.promise_made">> ],
    shamanic |->
      [ movement |-> <<"fn.descend", "fn.crossing", "fn.road_walk">>,
        environment |-> <<"fn.breath_current", "fn.stone_names", "fn.bone_orchard">>,
        challenge |-> <<"fn.ordeal_dark", "fn.name_turns", "fn.river_black">>,
        support |-> <<"fn.guide_sign", "fn.memory_map">>,
        maintenance |-> <<"fn.repack", "fn.eat">>,
        reflection |-> <<"fn.naming", "fn.pattern_seen">> ] ]

\* the six categories of a palette, in the order the planner spreads them
PaletteBeats(regime) ==
  PALETTE[regime].movement \o PALETTE[regime].environment \o
  PALETTE[regime].challenge \o PALETTE[regime].support \o
  PALETTE[regime].maintenance \o PALETTE[regime].reflection

AllPaletteBeats == UNION {Range(PaletteBeats(r)) : r \in Regime}

(***************************************************************************)
(* Output lines.  A line is [kind, id]: the sentence itself is named by    *)
(* where it comes from (its table and key); "empty" is the empty string.   *)
(***************************************************************************)
Line(kind, id) == [kind |-> kind, id |-> id]

EmptyText == Line("empty", "")

OpeningAnchor == Line("anchor", "opening")

ClosingAnchor == Line("anchor", "closing")

\* every bridge id of ALLOWED_BRIDGES has a sentence
BRIDGE_FNS ==
  [b \in {e[3] : e \in ALLOWED_BRIDGES} |-> Line("bridge", b)]

GateBeats == {"fn.call", "fn.threshold_crossing", "fn.return"}

\* fn -> its stock sentences; road_walk and trail_cut have two
SURFACES_FALLBACK ==
  [fn \in AllPaletteBeats \cup GateBeats |->
     IF fn \in {"fn.road_walk", "fn.trail_cut"}
     THEN <<Line("stock", fn), Line("stock2", fn)>>
     ELSE <<Line("stock", fn)>>]

(***************************************************************************)
(* Beat metadata: preconditions and effects (App.tsx 244-282).             *)
(***************************************************************************)
BEAT_RULES ==
  [ fn \in { "fn.trail_cut", "fn.road_walk", "fn.crossing", "fn.ascend",
             "fn.descend", "fn.light_fails", "fn.noise_close", "fn.stalked",
             "fn.obstacle", "fn.cross_danger", "fn.ordeal_dark",
             "fn.find_marker", "fn.repair_boot", "fn.eat", "fn.repack",
             "fn.call", "fn.threshold_crossing", "fn.return" } |->
    CASE fn = "fn.trail_cut" -> [needs |-> {"left_road"}, gives |-> {"in_trail"}]
      [] fn = "fn.road_walk" -> [needs |-> {}, gives |-> {"on_road"}]
      [] fn = "fn.crossing" -> [needs |-> {"in_trail"}, gives |-> {"wet"}]
      [] fn = "fn.ascend" -> [needs |-> {"in_trail"}, gives |-> {"high_ground"}]
      [] fn = "fn.descend" -> [needs |-> {"in_trail"}, gives |-> {}]
      [] fn = "fn.light_fails" -> [needs |-> {}, gives |-> {"low_light"}]
      [] fn = "fn.noise_close" -> [needs |-> {}, gives |-> {"alert"}]
      [] fn = "fn.stalked" -> [needs |-> {"low_light"}, gives |-> {"pursued"}]
      [] fn = "fn.obstacle" -> [needs |-> {"in_trail"}, gives |-> {"detour"}]
      [] fn = "fn.cross_danger" -> [needs |-> {"wet"}, gives |-> {"shaken"}]
      [] fn = "fn.ordeal_dark" -> [needs |-> {"low_light"}, gives |-> {"ordeal"}]
      [] fn = "fn.find_marker" -> [needs |-> {"in_trail"}, gives |-> {"oriented"}]
      [] fn = "fn.repair_boot" -> [needs |-> {"shaken"}, gives |-> {"steadied"}]
      [] fn = "fn.eat" -> [needs |-> {}, gives |-> {"fed"}]
      [] fn = "fn.repack" -> [needs |-> {}, gives |-> {"ordered"}]
      [] fn = "fn.call" -> [needs |-> {}, gives |-> {"left_road"}]
      [] fn = "fn.threshold_crossing" -> [needs |-> {"on_road"}, gives |-> {"in_trail"}]
      [] fn = "fn.return" -> [needs |-> {}, gives |-> {"approach"}] ]

\* BEAT_RULES[fn]?.needs and ?.gives: absent for a beat without a rule
BEAT_RULES_needs(fn) == IF fn \in DOMAIN BEAT_RULES THEN BEAT_RULES[fn].needs ELSE {}

BEAT_RULES_gives(fn) == IF fn \in DOMAIN BEAT_RULES THEN BEAT_RULES[fn].gives ELSE {}

hasAll(tokens, needs) == \A t \in needs : t \in tokens

\* effects that replace the token set instead of extending it
applyGivesReplace(tokens, gives) == gives

applyGives(tokens, gives) == tokens \cup gives

(***************************************************************************)
(* Fractions and regime weights (App.tsx 287-341).                         *)
(***************************************************************************)
Frac(n, d) == [n |-> n, d |-> d]

Zero == Frac(0, 1)

\* f > t and f < t for a whole number t
FracGT(f, t) == f.n > t * f.d

FracLT(f, t) == f.n < t * f.d

(***************************************************************************)
(* Weights are exact.  After n steps the denominator of a running weight   *)
(* is about 450^n, so numerators and denominators are natural numbers of   *)
(* any size: the sequence of their base-10000 digits, least significant    *)
(* first, without leading zeros (zero is the empty sequence).              *)
(***************************************************************************)
BigBase == 100 * 100

RECURSIVE BigOf(_)
BigOf(x) == IF x = 0 THEN <<>> ELSE <<x % BigBase>> \o BigOf(x \div BigBase)

RECURSIVE BigTrim(_)
BigTrim(a) ==
  IF a = <<>> THEN <<>>
  ELSE IF a[Len(a)] = 0 THEN BigTrim(SubSeq(a, 1, Len(a) - 1))
  ELSE a

Digit(a, j) == IF j <= Len(a) THEN a[j] ELSE 0

RECURSIVE BigAddFrom(_, _, _, _)
BigAddFrom(a, b, j, carry) ==
  IF j > Len(a) /\ j > Len(b)
  THEN (IF carry = 0 THEN <<>> ELSE <<carry>>)
  ELSE LET x == Digit(a, j) + Digit(b, j) + carry
       IN <<x % BigBase>> \o BigAddFrom(a, b, j + 1, x \div BigBase)

BigAdd(a, b) == BigAddFrom(a, b, 1, 0)

RECURSIVE BigTimesFrom(_, _, _, _)
\* a times the small number m (0 <= m < BigBase)
BigTimesFrom(a, m, j, carry) ==
  IF j > Len(a) THEN BigOf(carry)
  ELSE LET x == a[j] * m + carry
       IN <<x % BigBase>> \o BigTimesFrom(a, m, j + 1, x \div BigBase)

BigTimes(a, m) == BigTrim(BigTimesFrom(a, m, 1, 0))

RECURSIVE BigMul(_, _)
BigMul(a, b) ==
  IF b = <<>> THEN <<>>
  ELSE BigTrim(BigAdd(BigTimes(a, b[1]), <<0>> \o BigMul(a, Tail(b))))

RECURSIVE BigGTFrom(_, _, _)
BigGTFrom(a, b, j) ==
  IF j = 0 THEN FALSE
  ELSE IF a[j] # b[j] THEN a[j] > b[j]
  ELSE BigGTFrom(a, b, j - 1)

\* a > b
BigGT(a, b) ==
  IF Len(a) # Len(b) THEN Len(a) > Len(b) ELSE BigGTFrom(a, b, Len(a))

RECURSIVE SumOver(_, _)
\* REGIME_LIST.reduce((a, k) => a + f[k], 0) over the list ks
SumOver(f, ks) ==
  IF ks = <<>> THEN <<>> ELSE BigAdd(f[ks[1]], SumOver(f, Tail(ks)))

\* the vector with numerators num (small numbers) over the denominator den
Weights(num, den) == [n |-> [k \in DOMAIN num |-> BigOf(num[k])], d |-> BigOf(den)]

Uniform == Weights([k \in Regime |-> 1], 5)

WeightSum(w) == SumOver(w.n, REGIME_LIST)

\* weight k of w equals weight k of v
SameWeight(w, v, k) == BigMul(w.n[k], v.d) = BigMul(v.n[k], w.d)

\* normalizeWeights without the division by the sum
normalizeWeightsNoDivision(w) ==
  [n |-> [k \in Regime |-> IF k \in DOMAIN w.n THEN w.n[k] ELSE <<>>], d |-> w.d]

\* normalizeWeights without the uniform fallback: a zero sum divides by 0
normalizeWeightsNoFallback(w) ==
  LET out == [k \in Regime |-> IF k \in DOMAIN w.n THEN w.n[k] ELSE <<>>]
  IN [n |-> out, d |-> SumOver(out, REGIME_LIST)]

\* w is a partial vector [n, d], weight k being n[k] / d; missing keys count 0.
\* out[k] / sum is n[k] over the sum of the numerators.
normalizeWeights(w) ==
  LET out == [k \in Regime |-> IF k \in DOMAIN w.n THEN w.n[k] ELSE <<>>]
      sum == SumOver(out, REGIME_LIST)
  IN IF sum = <<>> THEN Uniform
     ELSE [n |-> out, d |-> sum]

\* the fields of a state that the classifier and the planner read
VarOf(s, ch) == IF ch \in DOMAIN s.var THEN s.var[ch] ELSE Zero

TrendOf(s, ch) == IF ch \in DOMAIN s.trend THEN s.trend[ch] ELSE 0

BinOf(s, ch) == Get(s.bins, ch)

\* the contributions, counted in tenths
instantRegimeWeights(s) ==
  LET varSeis == VarOf(s, "seismic")
      varTilt == VarOf(s, "tilt")
      trendSeis == TrendOf(s, "seismic")
      tiltBin == BinOf(s, "tilt")
      tempBin == BinOf(s, "temp")
      mood == Get(s.NCV, "mood")
      pace == Get(s.NCV, "pace")
      horror == (IF FracGT(varSeis, 60) THEN 10 ELSE 0)
              + (IF tempBin = "cool" THEN 3 ELSE 0)
              + (IF mood = "strained" THEN 5 ELSE 0)
      trickster == (IF FracGT(varTilt, 8) THEN 6 ELSE 0)
                 + (IF pace = "steady" THEN 3 ELSE 0)
                 + (IF tiltBin = "shift" THEN 3 ELSE 0)
      thriller == (IF FracGT(varSeis, 40) THEN 7 ELSE 0)
                + (IF trendSeis > 1 THEN 5 ELSE 0)
                + (IF pace = "fast" THEN 3 ELSE 0)
      fairytale == (IF FracLT(varSeis, 20) THEN 7 ELSE 0)
                 + (IF pace = "calm" THEN 3 ELSE 0)
      shamanic == (IF tiltBin = "shear" THEN 7 ELSE 0)
                + (IF tempBin = "warm" THEN 2 ELSE 1)
                + (IF trendSeis < -1 THEN 3 ELSE 0)
  IN normalizeWeights(
       Weights([ horror |-> horror, trickster |-> trickster,
                 thriller |-> thriller, fairytale |-> fairytale,
                 shamanic |-> shamanic ], 10))

\* inertia counts tenths (7 is 0.7): out[k] = inertia * prev[k] + (1 - inertia) * now[k]
\* a mix that gives the inertia to the instantaneous vector
mixWeightsSwapped(prev, now, inertia) ==
  LET out == [k \in Regime |->
                BigAdd(BigTimes(BigMul(now.n[k], prev.d), inertia),
                       BigTimes(BigMul(prev.n[k], now.d), 10 - inertia))]
  IN normalizeWeights([n |-> out, d |-> BigTimes(BigMul(prev.d, now.d), 10)])

\* a mix that reads the instantaneous weight of the next regime of the list
mixWeightsShifted(prev, now, inertia) ==
  LET after(k) == REGIME_LIST[((CHOOSE j \in DOMAIN REGIME_LIST : REGIME_LIST[j] = k)
                               % Len(REGIME_LIST)) + 1]
      out == [k \in Regime |->
                BigAdd(BigTimes(BigMul(prev.n[k], now.d), inertia),
                       BigTimes(BigMul(now.n[after(k)], prev.d), 10 - inertia))]
  IN normalizeWeights([n |-> out, d |-> BigTimes(BigMul(prev.d, now.d), 10)])

mixWeights(prev, now, inertia) ==
  LET out == [k \in Regime |->
                BigAdd(BigTimes(BigMul(prev.n[k], now.d), inertia),
                       BigTimes(BigMul(now.n[k], prev.d), 10 - inertia))]
  IN normalizeWeights([n |-> out, d |-> BigTimes(BigMul(prev.d, now.d), 10)])

RECURSIVE TopFromLastWins(_, _, _)
\* a reduce in which a later regime of equal weight replaces the best
TopFromLastWins(w, best, ks) ==
  IF ks = <<>> THEN best
  ELSE TopFromLastWins(w, IF BigGT(w.n[best], w.n[ks[1]]) THEN best ELSE ks[1], Tail(ks))

RECURSIVE TopFrom(_, _, _)
\* weights of one vector share the denominator: the numerators are compared
TopFrom(w, best, ks) ==
  IF ks = <<>> THEN best
  ELSE TopFrom(w, IF BigGT(w.n[ks[1]], w.n[best]) THEN ks[1] ELSE best, Tail(ks))

topRegime(w) == TopFrom(w, REGIME_LIST[1], REGIME_LIST)

\* null is the empty string
\* allowedBridge looking the pair up in the reverse direction
allowedBridgeReversed(prev, next) ==
  IF prev = next THEN ""
  ELSE IF \E e \in ALLOWED_BRIDGES : e[1] = next /\ e[2] = prev
       THEN (CHOOSE e \in ALLOWED_BRIDGES : e[1] = next /\ e[2] = prev)[3]
       ELSE ""

allowedBridge(prev, next) ==
  IF prev = next THEN ""
  ELSE IF \E e \in ALLOWED_BRIDGES : e[1] = prev /\ e[2] = next
       THEN (CHOOSE e \in ALLOWED_BRIDGES : e[1] = prev /\ e[2] = next)[3]
       ELSE ""

(***************************************************************************)
(* Beat selection: scoring and the planner's candidate list                *)
(* (App.tsx 352-414).  Scores count hundredths.                            *)
(***************************************************************************)
scoreBeat(fn, regime, s) ==
  LET inPalette == Includes(PaletteBeats(regime), fn)
      base == IF inPalette THEN 100 ELSE 20
      vSeis == VarOf(s, "seismic")
      vTilt == VarOf(s, "tilt")
      trendSeis == TrendOf(s, "seismic")
      lowLight == Get(s.NCV, "time") \in {"dusk", "night"}
  IN base
     + (IF fn = "fn.stalked" THEN (IF lowLight THEN 60 ELSE 10) ELSE 0)
     + (IF fn = "fn.cross_danger" /\ FracGT(vSeis, 40) THEN 50 ELSE 0)
     + (IF fn = "fn.ascend" /\ FracGT(vTilt, 10) THEN 40 ELSE 0)
     + (IF fn = "fn.descend" /\ trendSeis < -1 THEN 30 ELSE 0)
     + (IF fn = "fn.find_marker" /\ BinOf(s, "tilt") = "shift" THEN 30 ELSE 0)
     + (IF fn = "fn.ordeal_dark" /\ lowLight /\ FracGT(vSeis, 60) THEN 60 ELSE 0)

\* a candidate pool with foreign options: the challenges of another palette
ALL_BEATS_Foreign(regime) ==
  Dedup(PaletteBeats(regime) \o PALETTE["thriller"].challenge)

\* the candidate pool of a regime, first occurrences in category order
ALL_BEATS(regime) == Dedup(PaletteBeats(regime))

\* a planner without the precondition filter
feasibleUngated(regime, tokens) == ALL_BEATS(regime)

feasible(regime, tokens) ==
  FilterSeq(ALL_BEATS(regime),
            {fn \in Range(ALL_BEATS(regime)) : hasAll(tokens, BEAT_RULES_needs(fn))})

\* a planner without the cooldown penalty
cooledScoreNoPenalty(fn, regime, s, recentBeats) == scoreBeat(fn, regime, s)

\* a cooldown that multiplies the score of a recent beat by 4
cooledScoreRaised(fn, regime, s, recentBeats) ==
  LET sc == scoreBeat(fn, regime, s)
  IN IF Includes(LastK(recentBeats, 4), fn) THEN sc * 4 ELSE sc

\* the score of a candidate with the cooldown applied
cooledScore(fn, regime, s, recentBeats) ==
  LET sc == scoreBeat(fn, regime, s)
  IN IF Includes(LastK(recentBeats, 4), fn) THEN (sc * 4) \div 10 ELSE sc

RECURSIVE SortDescTiesReversed(_)
\* a sort that puts a later element before the earlier ones of equal score
SortDescTiesReversed(xs) ==
  IF xs = <<>> THEN <<>>
  ELSE LET front == SortDescTiesReversed(SubSeq(xs, 1, Len(xs) - 1))
           x == xs[Len(xs)]
           pos == Cardinality({i \in DOMAIN front : front[i].sc > x.sc})
       IN SubSeq(front, 1, pos) \o <<x>> \o SubSeq(front, pos + 1, Len(front))

RECURSIVE SortDesc(_)
\* Array.prototype.sort((a, b) => b.sc - a.sc): stable, descending
SortDesc(xs) ==
  IF xs = <<>> THEN <<>>
  ELSE LET front == SortDesc(SubSeq(xs, 1, Len(xs) - 1))
           x == xs[Len(xs)]
           \* x goes after every element whose score is at least its own
           pos == Cardinality({i \in DOMAIN front : front[i].sc >= x.sc})
       IN SubSeq(front, 1, pos) \o <<x>> \o SubSeq(front, pos + 1, Len(front))

scored(regime, s, tokens, recentBeats) ==
  LET f == feasible(regime, tokens)
  IN SortDesc([i \in DOMAIN f |->
                 [fn |-> f[i], sc |-> cooledScore(f[i], regime, s, recentBeats)]])

\* a selection loop that never stops at the wanted count
chooseBeatsPlannedNoBreak(regime, s, tokens, recentBeats, want) ==
  LET sorted == scored(regime, s, tokens, recentBeats)
      picked == [j \in DOMAIN sorted |-> sorted[j].fn]
  IN [ out |-> picked,
       tokens |-> tokens \cup UNION {BEAT_RULES_gives(picked[j]) : j \in DOMAIN picked} ]

\* the whole planner call: the selected beats and the token set it leaves
chooseBeatsPlanned(regime, s, tokens, recentBeats, want) ==
  LET sorted == scored(regime, s, tokens, recentBeats)
      picked == [j \in 1..Min(Max(want, 0), Len(sorted)) |-> sorted[j].fn]
  IN [ out |-> picked,
       tokens |-> tokens \cup UNION {BEAT_RULES_gives(picked[j]) : j \in DOMAIN picked} ]

(***************************************************************************)
(* Side-quest mini-graph (App.tsx 419-443).                                *)
(***************************************************************************)
SQ_EDGES ==
  [ n \in {"SQ.threshold", "SQ.trials", "SQ.inmost", "SQ.boon", "SQ.exit"} |->
    CASE n = "SQ.threshold" -> <<"SQ.trials">>
      [] n = "SQ.trials" -> <<"SQ.trials", "SQ.inmost">>
      [] n = "SQ.inmost" -> <<"SQ.boon">>
      [] n = "SQ.boon" -> <<"SQ.exit">>
      [] n = "SQ.exit" -> <<>> ]

RECURSIVE SideQuestWalkShortcut(_, _, _, _, _)
\* a walk that leaves SQ.trials for SQ.boon when the variance is high
SideQuestWalkShortcut(steps, sList, path, node, i) ==
  IF i < steps /\ node # "SQ.exit"
  THEN LET v == IF sList = <<>> THEN Zero
                ELSE VarOf(sList[Min(i, Len(sList) - 1) + 1], "seismic")
           nexts == SQ_EDGES[node]
           next == IF node = "SQ.trials" /\ FracGT(v, 60) THEN "SQ.boon"
                   ELSE IF nexts # <<>> THEN nexts[1] ELSE "SQ.exit"
       IN SideQuestWalkShortcut(steps, sList, Append(path, node), next, i + 1)
  ELSE IF Includes(path, "SQ.exit") THEN path ELSE Append(path, "SQ.exit")

RECURSIVE SideQuestWalkEarly(_, _, _, _, _)
\* a walk that tests the variance at SQ.threshold as well
SideQuestWalkEarly(steps, sList, path, node, i) ==
  IF i < steps /\ node # "SQ.exit"
  THEN LET v == IF sList = <<>> THEN Zero
                ELSE VarOf(sList[Min(i, Len(sList) - 1) + 1], "seismic")
           nexts == SQ_EDGES[node]
           next == IF node \in {"SQ.threshold", "SQ.trials"} /\ FracGT(v, 60)
                   THEN "SQ.inmost"
                   ELSE IF nexts # <<>> THEN nexts[1] ELSE "SQ.exit"
       IN SideQuestWalkEarly(steps, sList, Append(path, node), next, i + 1)
  ELSE IF Includes(path, "SQ.exit") THEN path ELSE Append(path, "SQ.exit")

RECURSIVE SideQuestWalk(_, _, _, _, _)
\* the while loop: i counts from 0, sList is indexed from 1
SideQuestWalk(steps, sList, path, node, i) ==
  IF i < steps /\ node # "SQ.exit"
  THEN LET v == IF sList = <<>> THEN Zero
                ELSE VarOf(sList[Min(i, Len(sList) - 1) + 1], "seismic")
           nexts == SQ_EDGES[node]
           next == IF node = "SQ.trials" /\ FracGT(v, 60) THEN "SQ.inmost"
                   ELSE IF nexts # <<>> THEN nexts[1] ELSE "SQ.exit"
       IN SideQuestWalk(steps, sList, Append(path, node), next, i + 1)
  ELSE IF Includes(path, "SQ.exit") THEN path ELSE Append(path, "SQ.exit")

\* a walk that is given one iteration more than the slice is long
pickSideQuestPathOneMore(steps, sList) ==
  SideQuestWalk(steps + 1, sList, <<>>, "SQ.threshold", 0)

pickSideQuestPath(steps, sList) ==
  SideQuestWalk(steps, sList, <<>>, "SQ.threshold", 0)

(***************************************************************************)
(* Ledger: time of day and terrain (App.tsx 448-454).                      *)
(***************************************************************************)
deriveLedger(idx, total, s) ==
  LET timePhase == idx % 10
  IN [ time |-> IF timePhase < 3 THEN "morning"
                ELSE IF timePhase < 7 THEN "day"
                ELSE IF timePhase < 9 THEN "dusk" ELSE "night",
       terrain |-> IF FracGT(VarOf(s, "seismic"), 60) THEN "rock"
                   ELSE IF FracGT(VarOf(s, "tilt"), 10) THEN "forest"
                   ELSE "road",
       idx |-> idx, total |-> total ]

(***************************************************************************)
(* Table parser (engine.ts 11-29).                                         *)
(*                                                                         *)
(* A text is the sequence of its lines after trim() and split(/\r?\n/),    *)
(* a line the sequence of its comma-separated, trimmed fields.  A field    *)
(* is [t, n, s]: t = "num" when Number(field) is the finite number n,      *)
(* "empty" for the empty string (Number("") is 0), "str" for any other     *)
(* string s.  A cell of a row has the same shape, with t = "undef" for     *)
(* undefined and "nan" for NaN.                                            *)
(***************************************************************************)
NumField(n) == [t |-> "num", n |-> n, s |-> ""]

StrField(s) == [t |-> "str", n |-> 0, s |-> s]

EmptyField == [t |-> "empty", n |-> 0, s |-> ""]

Undef == [t |-> "undef", n |-> 0, s |-> ""]

NaNCell == [t |-> "nan", n |-> 0, s |-> ""]

\* "".split(/\r?\n/) is [""] and "".split(",") is [""]: one line, one empty field
SplitLines(text) == IF text = <<>> THEN << <<EmptyField>> >> ELSE text

\* the property name a header field becomes
KeyOf(f) ==
  IF f.t = "str" THEN f.s ELSE IF f.t = "empty" THEN "" ELSE ToString(f.n)

\* Number(cols[i]) finite ? that number : cols[i]
CellOf(cols, i) ==
  IF i > Len(cols) THEN Undef
  ELSE IF cols[i].t = "str" THEN cols[i]
  ELSE NumField(cols[i].n)

\* Number(ln.trim()) of a whole line without header
LineNumber(ln) ==
  IF Len(ln) = 1 /\ ln[1].t # "str" THEN NumField(ln[1].n) ELSE NaNCell

parseCSV(text) ==
  LET lines == SplitLines(text)
      headers == lines[1]
      hasHeader == \E i \in DOMAIN headers : headers[i].t = "str"
      keys == {KeyOf(headers[i]) : i \in DOMAIN headers}
      \* a repeated header name keeps the value of its last column
      lastCol(k) ==
        CHOOSE i \in DOMAIN headers :
          /\ KeyOf(headers[i]) = k
          /\ \A j \in DOMAIN headers : KeyOf(headers[j]) = k => j <= i
  IN IF ~hasHeader
     THEN [i \in DOMAIN lines |-> [value |-> LineNumber(lines[i])]]
     ELSE [i \in 1..(Len(lines) - 1) |->
             [k \in keys |-> CellOf(lines[i + 1], lastCol(k))]]

(***************************************************************************)
(* State deriver (engine.ts 31-70).                                        *)
(***************************************************************************)
\* Number(x) || 0
ToNum(cell) == IF cell.t = "num" THEN cell.n ELSE 0

\* r[ch], undefined when the row has no such column
Cell(r, ch) == IF ch \in DOMAIN r THEN r[ch] ELSE Undef

\* the outcome of a call that throws a TypeError
TypeError == "<TypeError>"

RECURSIVE FirstBinStrict(_, _, _)
\* a search that takes a bin only when the value is below its max
FirstBinStrict(bins, v, i) ==
  IF i > Len(bins) THEN (IF bins = <<>> THEN TypeError ELSE bins[Len(bins)].id)
  ELSE IF v < bins[i].max THEN bins[i].id
  ELSE FirstBinStrict(bins, v, i + 1)

RECURSIVE FirstBin(_, _, _)
\* past the last bin: bins[bins.length-1].id, which throws for an empty list
FirstBin(bins, v, i) ==
  IF i > Len(bins) THEN (IF bins = <<>> THEN TypeError ELSE bins[Len(bins)].id)
  ELSE IF v <= bins[i].max THEN bins[i].id
  ELSE FirstBin(bins, v, i + 1)

binValue(bins, v) == FirstBin(bins, v, 1)

RECURSIVE SumSeq(_)
SumSeq(s) == IF s = <<>> THEN 0 ELSE s[1] + SumSeq(Tail(s))

\* statistics over all records up to idx, whatever the window
rollingFromStart(rows, idx, n, key) ==
  LET arr == [j \in 1..(idx + 1) |-> ToNum(Cell(rows[j], key))]
      len == Len(arr)
      sum == SumSeq(arr)
      dev == [j \in DOMAIN arr |-> (len * arr[j] - sum) * (len * arr[j] - sum)]
  IN [ mean |-> Frac(sum, len),
       variance |-> Frac(SumSeq(dev), len * len * len),
       trend |-> IF len > 1 THEN arr[len] - arr[1] ELSE 0 ]

\* idx counts from 0 as in the code; rows is indexed from 1
rolling(rows, idx, n, key) ==
  LET start == Max(0, idx - n + 1)
      arr == [j \in 1..(idx + 1 - start) |-> ToNum(Cell(rows[start + j], key))]
      len == Len(arr)
      sum == SumSeq(arr)
      \* (b - mean)^2 = (len * b - sum)^2 / len^2
      dev == [j \in DOMAIN arr |-> (len * arr[j] - sum) * (len * arr[j] - sum)]
  IN [ mean |-> Frac(sum, len),
       variance |-> Frac(SumSeq(dev), len * len * len),
       trend |-> IF len > 1 THEN arr[len] - arr[1] ELSE 0 ]

\* the tag of a value read through `from`, a dotted path given as its segments
Undefined == "<undefined>"

SourceTag(s, src) ==
  LET last == src[Len(src)]
      first == src[1]
  IN IF Len(src) > 1 /\ last = "var"
     THEN IF first \notin DOMAIN s.var THEN "high"
          ELSE IF FracLT(s.var[first], 1) THEN "low"
          ELSE IF FracLT(s.var[first], 50) THEN "med" ELSE "high"
     ELSE IF Len(src) > 1 /\ last = "trend"
     THEN IF first \notin DOMAIN s.trend THEN "flat"
          ELSE IF s.trend[first] > 1 THEN "up"
          ELSE IF s.trend[first] < -1 THEN "down" ELSE "flat"
     ELSE IF Len(src) > 1 /\ first = "setpoint"
     THEN IF src[2] \in DOMAIN s.setpoint THEN s.setpoint[src[2]] ELSE Undefined
     ELSE IF Len(src) > 1 /\ first = "relative"
     THEN IF src[2] \in DOMAIN s.relative THEN s.relative[src[2]] ELSE Undefined
     ELSE IF Len(src) > 1 /\ last = "bin"
     THEN IF first \in DOMAIN s.bins THEN s.bins[first] ELSE Undefined
     ELSE "flat"

RECURSIVE FindPairLast(_, _, _)
\* a lookup that keeps the label of the last matching pair
FindPairLast(map, tag, i) ==
  IF i > Len(map) THEN tag
  ELSE LET rest == FindPairLast(map, tag, i + 1)
       IN IF map[i][1] = tag /\ rest = tag THEN map[i][2] ELSE rest

RECURSIVE FindPair(_, _, _)
\* map.find(p => p[0] === tag): the label of the first matching pair, else the tag
FindPair(map, tag, i) ==
  IF i > Len(map) THEN tag
  ELSE IF map[i][1] = tag THEN map[i][2]
  ELSE FindPair(map, tag, i + 1)

RECURSIVE NcvFold(_, _, _)
\* Object.entries(codebook.ncv) in order; a repeated key keeps the last label
NcvFold(s, ncv, acc) ==
  IF ncv = <<>> THEN acc
  ELSE LET e == ncv[1]
           label == FindPair(e.map, SourceTag(s, e.from), 1)
       IN NcvFold(s, Tail(ncv),
                  [k \in DOMAIN acc \cup {e.key} |->
                     IF k = e.key THEN label ELSE acc[k]])

EmptyMap == [k \in {} |-> ""]

\* a deriver that takes the variance over windows.variance
stateOfOwnVarianceWindow(rows, idx, codebook) ==
  LET r == rows[idx + 1]
      win == codebook.windows.trend
      chs == Range(codebook.channels)
      roll == [ch \in chs |-> rolling(rows, idx, win, ch)]
      \* codebook.bins[ch] undefined: `for (const b of bins)` throws
      bins == [ch \in chs |->
                 IF ch \in DOMAIN codebook.bins
                 THEN binValue(codebook.bins[ch], ToNum(Cell(r, ch)))
                 ELSE TypeError]
      setpoint == IF "temp" \in chs THEN [temp |-> bins["temp"]] ELSE EmptyMap
      l == ToNum(Cell(r, "lum"))
      tr == ToNum(Cell(r, "transpiration"))
      relative ==
        IF "lum" \in DOMAIN r /\ "transpiration" \in DOMAIN r
        THEN [lum_vs_transpiration |->
                IF l - tr > 10 THEN "lum_dominant"
                ELSE IF tr - l > 10 THEN "transpiration_dominant"
                ELSE "balanced"]
        ELSE EmptyMap
      s0 == [ raw |-> r, bins |-> bins,
              trend |-> [ch \in chs |-> roll[ch].trend],
              var |-> [ch \in chs |->
                       rolling(rows, idx, codebook.windows.variance, ch).variance],
              setpoint |-> setpoint, relative |-> relative, NCV |-> EmptyMap ]
  IN [s0 EXCEPT !.NCV = NcvFold(s0, codebook.ncv, EmptyMap)]

stateOf(rows, idx, codebook) ==
  LET r == rows[idx + 1]
      win == codebook.windows.trend
      chs == Range(codebook.channels)
      roll == [ch \in chs |-> rolling(rows, idx, win, ch)]
      \* codebook.bins[ch] undefined: `for (const b of bins)` throws
      bins == [ch \in chs |->
                 IF ch \in DOMAIN codebook.bins
                 THEN binValue(codebook.bins[ch], ToNum(Cell(r, ch)))
                 ELSE TypeError]
      setpoint == IF "temp" \in chs THEN [temp |-> bins["temp"]] ELSE EmptyMap
      l == ToNum(Cell(r, "lum"))
      tr == ToNum(Cell(r, "transpiration"))
      relative ==
        IF "lum" \in DOMAIN r /\ "transpiration" \in DOMAIN r
        THEN [lum_vs_transpiration |->
                IF l - tr > 10 THEN "lum_dominant"
                ELSE IF tr - l > 10 THEN "transpiration_dominant"
                ELSE "balanced"]
        ELSE EmptyMap
      s0 == [ raw |-> r, bins |-> bins,
              trend |-> [ch \in chs |-> roll[ch].trend],
              var |-> [ch \in chs |-> roll[ch].variance],
              setpoint |-> setpoint, relative |-> relative, NCV |-> EmptyMap ]
  IN [s0 EXCEPT !.NCV = NcvFold(s0, codebook.ncv, EmptyMap)]

computeStates(rows, codebook) ==
  [i \in DOMAIN rows |-> stateOf(rows, i - 1, codebook)]

\* the call does not return: binValue threw while a state was being built
computeStatesThrows(rows, codebook) ==
  \E i \in DOMAIN rows : \E ch \in Range(codebook.channels) :
    stateOf(rows, i - 1, codebook).bins[ch] = TypeError

(***************************************************************************)
(* Threshold rules (engine.ts 72-92).  An expression is                    *)
(* [op, sig, val]: op "eq" compares the signal with the tag val, "bad" is  *)
(* an expression whose evaluation throws.                                  *)
(***************************************************************************)
SignalEnv(state) ==
  [ sig \in { "temp.bin", "lum.bin", "bio_potential.trend", "lum.trend",
              "seismic.bin", "tilt.bin", "gas_flux.bin", "seismic.trend" } |->
    CASE sig = "temp.bin" -> BinOf(state, "temp")
      [] sig = "lum.bin" -> BinOf(state, "lum")
      [] sig = "seismic.bin" -> BinOf(state, "seismic")
      [] sig = "tilt.bin" -> BinOf(state, "tilt")
      [] sig = "gas_flux.bin" -> BinOf(state, "gas_flux")
      [] OTHER -> "" ]

\* the value of the expression; FALSE when it throws
ExprOk(expr, env) ==
  /\ expr.op = "eq"
  /\ expr.sig \in DOMAIN env
  /\ env[expr.sig] = expr.val

RECURSIVE selectFunctionsAbort(_, _)
\* a rule loop that a throwing expression ends
selectFunctionsAbort(env, rules) ==
  IF rules = <<>> \/ rules[1].if.op # "eq" THEN <<>>
  ELSE (IF ExprOk(rules[1].if, env)
        THEN [i \in DOMAIN rules[1].then |-> [fn |-> rules[1].then[i]]]
        ELSE <<>>)
       \o selectFunctionsAbort(env, Tail(rules))

RECURSIVE selectFunctionsFrom(_, _)
selectFunctionsFrom(env, rules) ==
  IF rules = <<>> THEN <<>>
  ELSE (IF ExprOk(rules[1].if, env)
        THEN [i \in DOMAIN rules[1].then |-> [fn |-> rules[1].then[i]]]
        ELSE <<>>)
       \o selectFunctionsFrom(env, Tail(rules))

selectFunctions(state, codebook) ==
  selectFunctionsFrom(SignalEnv(state), codebook.functions.thresholds)

(***************************************************************************)
(* Configuration data read by the run: the geology codebook and the        *)
(* surface table (App.tsx 4-6, 33-46; the shape of a codebook is           *)
(* engine.ts 2-9).                                                         *)
(***************************************************************************)
Bin(id, max) == [id |-> id, max |-> max]

geologyCodebook ==
  [ entity |-> "geology",
    channels |-> <<"seismic", "tilt", "gas_flux", "temp">>,
    windows |-> [trend |-> 3, variance |-> 5],
    bins |->
      [ seismic |-> <<Bin("quiet", 5), Bin("active", 15), Bin("violent", 1000)>>,
        tilt |-> <<Bin("level", 2), Bin("shift", 6), Bin("shear", 1000)>>,
        gas_flux |-> <<Bin("low", 40), Bin("high", 1000)>>,
        temp |-> <<Bin("cool", 60), Bin("mild", 80), Bin("warm", 1000)>> ],
    ncv |->
      << [ key |-> "mood", from |-> <<"seismic", "var">>,
           map |-> << <<"high", "strained">>, <<"med", "wary">> >> ],
         [ key |-> "pace", from |-> <<"seismic", "trend">>,
           map |-> << <<"up", "fast">>, <<"down", "calm">>,
                      <<"flat", "steady">> >> ],
         [ key |-> "pov", from |-> <<"setpoint", "temp">>,
           map |-> << <<"warm", "close">> >> ] >>,
    functions |->
      [ thresholds |->
          << [ if |-> [op |-> "eq", sig |-> "seismic.bin", val |-> "violent"],
               then |-> <<"fn.cross_danger", "fn.chase">> ],
             [ if |-> [op |-> "bad", sig |-> "", val |-> ""],
               then |-> <<"fn.eat">> ],
             [ if |-> [op |-> "eq", sig |-> "tilt.bin", val |-> "shear"],
               then |-> <<"fn.omen">> ],
             [ if |-> [op |-> "eq", sig |-> "temp.bin", val |-> "cool"],
               then |-> <<"fn.unwritten">> ] >> ] ]

activeCodebook == geologyCodebook

Surface(fn, mood, pov, time, terrain, text) ==
  [ function |-> fn, mood |-> mood, pov |-> pov, time |-> time,
    terrain |-> terrain, text |-> text ]

\* binds left "" are absent
surfaces ==
  << Surface("fn.road_walk", "", "", "", "rock", Line("surface", "road_walk.rock")),
     Surface("fn.eat", "", "", "day", "", Line("surface", "eat.day")),
     Surface("fn.trail_cut", "strained", "", "", "", Line("surface", "trail_cut.strained")),
     Surface("fn.omen", "", "", "night", "", Line("surface", "omen.night")),
     Surface("fn.call", "reflective", "", "", "", Line("surface", "call.reflective")),
     \* an entry whose text is the empty string
     Surface("fn.feast_smell", "", "", "", "forest", EmptyText) >>

\* the test of the candidates filter, for surface i
SurfaceMatches(i, fn, NCV) ==
  /\ surfaces[i].function = fn
  /\ surfaces[i].mood = "" \/ surfaces[i].mood = Get(NCV, "mood")
  /\ surfaces[i].pov = "" \/ surfaces[i].pov = Get(NCV, "pov")
  /\ surfaces[i].time = "" \/ surfaces[i].time = Get(NCV, "time")
  /\ surfaces[i].terrain = "" \/ surfaces[i].terrain = Get(NCV, "terrain")

\* first index of a non-empty set of indices
FirstOf(S) == CHOOSE i \in S : \A j \in S : i <= j

pickSurfaceText(fn, NCV) ==
  LET candidates == {i \in DOMAIN surfaces : SurfaceMatches(i, fn, NCV)}
      loose == {i \in DOMAIN surfaces : surfaces[i].function = fn}
  IN IF candidates # {} THEN surfaces[FirstOf(candidates)].text
     ELSE IF fn \in DOMAIN SURFACES_FALLBACK /\ SURFACES_FALLBACK[fn] # <<>>
     THEN SURFACES_FALLBACK[fn][1]
     ELSE IF loose # {} /\ surfaces[FirstOf(loose)].text # EmptyText
     THEN surfaces[FirstOf(loose)].text
     ELSE EmptyText

\* a fallback that always takes the default
OrElseOther(text, other) == other

\* text || other
OrElse(text, other) == IF text # EmptyText THEN text ELSE other

(***************************************************************************)
(* Pasted texts the model explores.                                        *)
(***************************************************************************)
Header ==
  <<StrField("seismic"), StrField("tilt"), StrField("gas_flux"), StrField("temp")>>

DataLine(seismic, tilt, gas, temp) ==
  <<NumField(seismic), NumField(tilt), NumField(gas), NumField(temp)>>

RowSamples ==
  { DataLine(0, 0, 40, 70),
    DataLine(20, 0, 45, 50),
    DataLine(14, 4, 40, 70),
    DataLine(10, 9, 40, 90) }

DataTexts ==
  UNION { {<<Header>> \o body : body \in [1..n -> RowSamples]} : n \in 1..MaxRows }

SpecialTexts ==
  { <<>>,
    <<Header>>,
    << <<NumField(5)>>, <<NumField(7)>> >>,
    <<Header, <<StrField("n/a"), NumField(6)>>, DataLine(20, 9, 40, 50)>> }

TextSamples == DataTexts \cup SpecialTexts

PresetChannels == {"seismic", "tilt", "gas_flux", "temp"}

\* the numbers a header field of the samples can be
NumericKeys == {""} \cup {ToString(n) : n \in 0..100}

(***************************************************************************)
(* The component (App.tsx 459-564).                                        *)
(***************************************************************************)
VARIABLES
  rawCSV,       \* useState: the pasted text
  engaged,      \* useState: channel -> checked
  status,       \* useState: the status line
  narrative,    \* useState: the lines shown
  states,       \* useMemo: one state per row; onGenerate merges time/terrain into NCV
  pc,           \* position of onGenerate: idle, loop, pick, emit, intent
  out,          \* onGenerate: the lines of the run
  prevWeights,  \* onGenerate: running weights of the previous step
  prevRegime,   \* onGenerate: regime of the previous step
  sqStart,      \* onGenerate: first step of the side-quest slice
  sqEnd,        \* onGenerate: first step after the slice
  sqPath,       \* onGenerate: the side-quest path
  tokens,       \* onGenerate: the token set
  recentBeats,  \* onGenerate: the beat history
  i,            \* onGenerate: loop index
  mixed,        \* loop body: the running weights of this step
  regime,       \* loop body: the regime of this step (side-quest steering applied)
  cands,        \* chooseBeatsPlanned: the part of `scored` not yet visited
  beats,        \* chooseBeatsPlanned: `out`, then the `beats` onGenerate emits
  emitted,      \* onGenerate: number of beats of this step already emitted
  runs,         \* history: number of Generate presses so far
  planned,      \* history: every beat the planner selected in this run, in order
  pickTokens,   \* history: the token set just before the latest pick
  stepStart,    \* history: Len(out) when the current step began
  usedRegimes,  \* history: the regime each step of this run planned with
  call,         \* a pure function applied on its own: its name and arguments
  ret           \* the value that application returned

vars ==
  << rawCSV, engaged, status, narrative, states, pc, out,
     prevWeights, prevRegime, sqStart, sqEnd, sqPath, tokens, recentBeats, i,
     mixed, regime, cands, beats, emitted, runs, planned, pickTokens, stepStart,
     usedRegimes, call, ret >>

inputVars == << rawCSV, engaged, call, ret >>

runVars ==
  << prevWeights, prevRegime, sqStart, sqEnd, sqPath, tokens, recentBeats, i,
     mixed, regime, cands, beats, emitted, planned, pickTokens, stepStart,
     usedRegimes >>

\* beats per step: the `want` onGenerate passes
Want == 3

\* the inertia onGenerate passes, in tenths

Inertia == 7

\* the rows memo: engaged columns of the parsed table
rowsMemo(text, eng) ==
  LET parsed == parseCSV(text)
      keys == IF parsed = <<>> THEN {} ELSE DOMAIN parsed[1]
      hasHeader == \E k \in keys : k \notin NumericKeys
      cols == {k \in keys : k \in DOMAIN eng /\ eng[k]}
  IN IF ~hasHeader THEN parsed
     ELSE [j \in DOMAIN parsed |-> [k \in cols |-> parsed[j][k]]]

statesMemo(rs) == IF rs = <<>> THEN <<>> ELSE computeStates(rs, activeCodebook)

intentsMemo(ss) == [j \in DOMAIN ss |-> selectFunctions(ss[j], activeCodebook)]

\* useMemo values: recomputed from the state they depend on
rows == rowsMemo(rawCSV, engaged)

intents == intentsMemo(states)

DefaultCall == Line("default", "fn.call")

DefaultReturn == Line("default", "fn.return")

\* a push that does not test the text
PushTextAlways(lines, text) == Append(lines, text)

\* out.push(line) unless the text is empty
PushText(lines, text) == IF text # EmptyText THEN Append(lines, text) ELSE lines

\* floor(n * 0.15) and floor(n * 0.85)
SliceStart(n) == (n * 15) \div 100

SliceEnd(n) == (n * 85) \div 100

\* states.slice(a, b), a and b counted from 0
Slice(s, a, b) == SubSeq(s, a + 1, Min(b, Len(s)))

\* side-quest steering of step idx
\* steering that sends every regime to trickster at SQ.trials
sideQuestSteerAnyRegime(idx, start, end, path, classified) ==
  IF idx >= start /\ idx < end /\ idx - start + 1 <= Len(path)
  THEN LET node == path[idx - start + 1]
       IN IF node = "SQ.inmost" THEN "shamanic"
          ELSE IF node = "SQ.trials" THEN "trickster"
          ELSE classified
  ELSE classified

sideQuestSteer(idx, start, end, path, classified) ==
  IF idx >= start /\ idx < end /\ idx - start + 1 <= Len(path)
  THEN LET node == path[idx - start + 1]
       IN IF node = "SQ.inmost" THEN "shamanic"
          ELSE IF node = "SQ.trials" /\ classified = "fairytale" THEN "trickster"
          ELSE classified
  ELSE classified

\* s.NCV = { ...(s.NCV || {}), time: ledger.time, terrain: ledger.terrain }
mergeLedger(s, ledger) ==
  [s EXCEPT !.NCV = [k \in DOMAIN s.NCV \cup {"time", "terrain"} |->
                       IF k = "time" THEN ledger.time
                       ELSE IF k = "terrain" THEN ledger.terrain
                       ELSE s.NCV[k]]]

NoCall == [fn |-> "none"]

\* new Set(["left_road"]) and the empty history of line 516
\* a token set that survives from one run to the next
runTokensKept == tokens \cup {"left_road"}

runTokens == {"left_road"}

runBeats == <<>>

\* largest length of the beat history
HistoryCap == 16

\* a history that is never shortened
pushRecentUncapped(history, fn) == Append(history, fn)

\* recentBeats.push(fn); if (recentBeats.length > 16) recentBeats.shift()
pushRecent(history, fn) ==
  LET pushed == Append(history, fn)
  IN IF Len(pushed) > HistoryCap THEN Tail(pushed) ELSE pushed

\* the state after the first render, for a text pasted from `texts`
InitFrom(texts) ==
  /\ rawCSV \in texts
  /\ engaged \in { [ch \in PresetChannels |-> TRUE],
                   [ch \in PresetChannels |-> ch # "tilt"] }
  /\ status = "Ready"
  /\ narrative = <<>>
  /\ \E rs \in {rowsMemo(rawCSV, engaged)} : states = statesMemo(rs)
  /\ pc = "idle"
  /\ out = <<>>
  /\ prevWeights = Uniform
  /\ prevRegime = topRegime(Uniform)
  /\ sqStart = 0
  /\ sqEnd = 0
  /\ sqPath = <<>>
  /\ tokens = {}
  /\ recentBeats = <<>>
  /\ i = 0
  /\ mixed = Uniform
  /\ regime = topRegime(Uniform)
  /\ cands = <<>>
  /\ beats = <<>>
  /\ emitted = 0
  /\ runs = 0
  /\ planned = <<>>
  /\ pickTokens = {}
  /\ stepStart = 0
  /\ usedRegimes = <<>>
  /\ call = NoCall
  /\ ret = NoCall

Init == InitFrom(TextSamples)

\* onGenerate, lines 492-516: the guard and the set-up of a run
Generate ==
  /\ pc = "idle"
  /\ runs < MaxRuns
  /\ runs' = runs + 1
  /\ IF rows = <<>>
     THEN /\ status' = "No data detected"
          /\ UNCHANGED << narrative, states, pc, out, runVars >>
     ELSE /\ out' = << OpeningAnchor,
                       OrElse(pickSurfaceText("fn.call", [mood |-> "reflective"]),
                              DefaultCall) >>
          /\ prevWeights' = Uniform
          /\ prevRegime' = topRegime(Uniform)
          /\ sqStart' = SliceStart(Len(states))
          /\ sqEnd' = SliceEnd(Len(states))
          /\ sqPath' = pickSideQuestPath(
                         Max(1, SliceEnd(Len(states)) - SliceStart(Len(states))),
                         Slice(states, SliceStart(Len(states)), SliceEnd(Len(states))))
          /\ tokens' = runTokens
          /\ recentBeats' = runBeats
          /\ i' = 0
          /\ pc' = "loop"
          /\ planned' = <<>>
          /\ pickTokens' = {}
          /\ stepStart' = 2
          /\ usedRegimes' = <<>>
          /\ UNCHANGED << status, narrative, states, mixed, regime, cands, beats,
                          emitted >>
  /\ UNCHANGED inputVars

\* loop body, lines 519-536 and 386-405: ledger, classification, bridge,
\* steering, and the sorted candidates of chooseBeatsPlanned
BeginStep ==
  /\ pc = "loop"
  /\ i < Len(states)
  /\ \E s \in {mergeLedger(states[i + 1], deriveLedger(i, Len(states), states[i + 1]))} :
     \E mix \in {mixWeights(prevWeights, instantRegimeWeights(s), Inertia)} :
     \E classified \in {topRegime(mix)} :
     \E steered \in {sideQuestSteer(i, sqStart, sqEnd, sqPath, classified)} :
     \E sorted \in {scored(steered, s, tokens, recentBeats)} :
       LET bridge == allowedBridge(prevRegime, classified)
       IN /\ states' = [states EXCEPT ![i + 1] = s]
          /\ mixed' = mix
          /\ out' = IF bridge # "" THEN Append(out, BRIDGE_FNS[bridge]) ELSE out
          /\ regime' = steered
          /\ usedRegimes' = Append(usedRegimes, steered)
          /\ cands' = sorted
          /\ pc' = IF sorted = <<>> THEN "intent" ELSE "pick"
  /\ beats' = <<>>
  /\ emitted' = 0
  /\ stepStart' = Len(out)
  /\ UNCHANGED << status, narrative, prevWeights, prevRegime, sqStart, sqEnd,
                  sqPath, tokens, recentBeats, i, runs, planned, pickTokens >>
  /\ UNCHANGED inputVars

\* chooseBeatsPlanned, lines 408-413: one iteration of the selection loop
PickBeat ==
  /\ pc = "pick"
  /\ LET fn == cands[1].fn
     IN /\ beats' = Append(beats, fn)
        /\ tokens' = applyGives(tokens, BEAT_RULES_gives(fn))
        /\ planned' = Append(planned, fn)
  /\ pickTokens' = tokens
  /\ cands' = Tail(cands)
  /\ pc' = IF Len(beats') >= Want \/ cands' = <<>> THEN "emit" ELSE "pick"
  /\ UNCHANGED << status, narrative, states, out, prevWeights, prevRegime,
                  sqStart, sqEnd, sqPath, recentBeats, i, mixed, regime,
                  emitted, runs, stepStart, usedRegimes >>
  /\ UNCHANGED inputVars

\* onGenerate, lines 540-545: one iteration of the emission loop
EmitBeat ==
  /\ pc = "emit"
  /\ LET fn == beats[emitted + 1]
         line == pickSurfaceText(fn, states[i + 1].NCV)
     IN /\ out' = PushText(out, line)
        /\ recentBeats' = pushRecent(recentBeats, fn)
  /\ emitted' = emitted + 1
  /\ pc' = IF emitted' >= Len(beats) THEN "intent" ELSE "emit"
  /\ UNCHANGED << status, narrative, states, prevWeights, prevRegime, sqStart,
                  sqEnd, sqPath, tokens, i, mixed, regime, cands, beats, runs,
                  planned, pickTokens, stepStart, usedRegimes >>
  /\ UNCHANGED inputVars

\* onGenerate, lines 547-555: the threshold-rule line and the end of the step
\* EndStep carrying the classified regime instead of the steered one
EndStepClassified ==
  /\ pc = "intent"
  /\ LET extra == FirstK(intents[i + 1], 1)
     IN out' = IF extra = <<>> THEN out
               ELSE PushText(out, pickSurfaceText(extra[1].fn, states[i + 1].NCV))
  /\ prevWeights' = mixed
  /\ prevRegime' = topRegime(mixed)
  /\ i' = i + 1
  /\ pc' = "loop"
  /\ UNCHANGED << status, narrative, states, sqStart, sqEnd, sqPath, tokens,
                  recentBeats, mixed, regime, cands, beats, emitted, runs,
                  planned, pickTokens, stepStart, usedRegimes >>
  /\ UNCHANGED inputVars

\* EndStep restarting the running weights after an override
EndStepResetOnOverride ==
  /\ pc = "intent"
  /\ LET extra == FirstK(intents[i + 1], 1)
     IN out' = IF extra = <<>> THEN out
               ELSE PushText(out, pickSurfaceText(extra[1].fn, states[i + 1].NCV))
  /\ prevWeights' = IF regime = topRegime(mixed) THEN mixed ELSE Uniform
  /\ prevRegime' = regime
  /\ i' = i + 1
  /\ pc' = "loop"
  /\ UNCHANGED << status, narrative, states, sqStart, sqEnd, sqPath, tokens,
                  recentBeats, mixed, regime, cands, beats, emitted, runs,
                  planned, pickTokens, stepStart, usedRegimes >>
  /\ UNCHANGED inputVars

\* EndStep applying the effects of the threshold-rule function to the tokens
EndStepWithEffects ==
  /\ pc = "intent"
  /\ LET extra == FirstK(intents[i + 1], 1)
     IN /\ out' = IF extra = <<>> THEN out
                  ELSE PushText(out, pickSurfaceText(extra[1].fn, states[i + 1].NCV))
        /\ tokens' = IF extra = <<>> THEN tokens
                     ELSE applyGives(tokens, BEAT_RULES_gives(extra[1].fn))
  /\ prevWeights' = mixed
  /\ prevRegime' = regime
  /\ i' = i + 1
  /\ pc' = "loop"
  /\ UNCHANGED << status, narrative, states, sqStart, sqEnd, sqPath,
                  recentBeats, mixed, regime, cands, beats, emitted, runs,
                  planned, pickTokens, stepStart, usedRegimes >>
  /\ UNCHANGED inputVars

EndStep ==
  /\ pc = "intent"
  /\ LET extra == FirstK(intents[i + 1], 1)
     IN out' = IF extra = <<>> THEN out
               ELSE PushText(out, pickSurfaceText(extra[1].fn, states[i + 1].NCV))
  /\ prevWeights' = mixed
  /\ prevRegime' = regime
  /\ i' = i + 1
  /\ pc' = "loop"
  /\ UNCHANGED << status, narrative, states, sqStart, sqEnd, sqPath, tokens,
                  recentBeats, mixed, regime, cands, beats, emitted, runs,
                  planned, pickTokens, stepStart, usedRegimes >>
  /\ UNCHANGED inputVars

\* onGenerate, lines 558-563: return beat, closing anchor, publication
Finish ==
  /\ pc = "loop"
  /\ i >= Len(states)
  /\ LET final == << OrElse(pickSurfaceText("fn.return", EmptyMap), DefaultReturn),
                     ClosingAnchor >>
     IN /\ out' = out \o final
        /\ narrative' = out \o final
  /\ status' = "Generated"
  /\ pc' = "idle"
  /\ UNCHANGED << states, runs, runVars >>
  /\ UNCHANGED inputVars

Next == Generate \/ BeginStep \/ PickBeat \/ EmitBeat \/ EndStep \/ Finish

Spec == Init /\ [][Next]_vars

(***************************************************************************)
(* Runs over long tables: the rows of the samples, repeated in a cycle.    *)
(***************************************************************************)
\* longest table of a long run
MaxLongRows == 9

RowCycle ==
  << DataLine(0, 0, 40, 70), DataLine(20, 0, 45, 50),
     DataLine(14, 4, 40, 70), DataLine(10, 9, 40, 90) >>

\* n rows of the cycle, starting after its k-th row
LongText(k, n) ==
  <<Header>> \o [j \in 1..n |-> RowCycle[((j + k - 1) % Len(RowCycle)) + 1]]

LongTexts ==
  { LongText(k, n) : k \in 0..(Len(RowCycle) - 1), n \in (MaxLongRows - 2)..MaxLongRows }

LongInit == InitFrom(LongTexts)

LongSpec == LongInit /\ [][Next]_vars

(***************************************************************************)
(* normalizeWeights applied on its own to small partial vectors.           *)
(***************************************************************************)
\* largest contribution of a probe vector, in tenths
MaxContribution == 2

NormalizeInputs ==
  UNION { [D -> 0..MaxContribution] :
            D \in {Regime, Regime \ {"horror"}, {"fairytale", "shamanic"}, {}} }

NormalizeInit ==
  /\ Init
  /\ rawCSV = <<>>
  /\ engaged = [ch \in PresetChannels |-> TRUE]

NormalizeCall ==
  /\ call = NoCall
  /\ \E num \in NormalizeInputs :
       call' = [fn |-> "normalizeWeights", num |-> num]
  /\ ret' = NoCall
  /\ UNCHANGED << rawCSV, engaged, status, narrative, states, pc, out, runs, runVars >>

NormalizeReturn ==
  /\ call # NoCall
  /\ ret = NoCall
  /\ ret' = normalizeWeights(Weights(call.num, 10))
  /\ UNCHANGED << rawCSV, engaged, status, narrative, states, pc, out, runs, runVars,
                  call >>

NormalizeNext == NormalizeCall \/ NormalizeReturn

NormalizeSpec == NormalizeInit /\ [][NormalizeNext]_vars

(***************************************************************************)
(* topRegime applied on its own to small weight vectors.                   *)
(***************************************************************************)
\* weights a probe vector can hold, over a common denominator: small ones
\* and two that need more than one digit
ProbeWeights == (0..MaxContribution) \cup {BigBase, BigBase + 1}

TopRegimeInit ==
  /\ Init
  /\ rawCSV = <<>>
  /\ engaged = [ch \in PresetChannels |-> TRUE]

TopRegimeCall ==
  /\ call = NoCall
  /\ \E num \in [Regime -> ProbeWeights] :
       call' = [fn |-> "topRegime", num |-> num]
  /\ ret' = NoCall
  /\ UNCHANGED << rawCSV, engaged, status, narrative, states, pc, out, runs, runVars >>

TopRegimeReturn ==
  /\ call # NoCall
  /\ ret = NoCall
  /\ ret' = [value |-> topRegime([n |-> [k \in Regime |-> BigOf(call.num[k])],
                                  d |-> BigOf(10)])]
  /\ UNCHANGED << rawCSV, engaged, status, narrative, states, pc, out, runs, runVars,
                  call >>

TopRegimeNext == TopRegimeCall \/ TopRegimeReturn

TopRegimeSpec == TopRegimeInit /\ [][TopRegimeNext]_vars

(***************************************************************************)
(* The functions of engine.ts applied on their own.                        *)
(***************************************************************************)
\* longest table handed to the engine functions
MaxEngineRows == 3
\* largest window handed to rolling
MaxWindow == 5
\* largest value handed to binValue
MaxValue == 12

AllEngaged == [ch \in PresetChannels |-> TRUE]

EngineTexts ==
  UNION { {<<Header>> \o body : body \in [1..n -> RowSamples]} : n \in 1..MaxEngineRows }
  \cup { <<Header, <<StrField("n/a"), NumField(6)>>, DataLine(20, 9, 40, 50)>>,
         << <<NumField(5)>>, <<NumField(7)>> >> }

EngineRows == {rowsMemo(text, AllEngaged) : text \in EngineTexts}

\* the geology codebook without a bin list for tilt, and with an empty one
NoTiltBins ==
  [geologyCodebook EXCEPT
     !.bins = [ch \in DOMAIN geologyCodebook.bins \ {"tilt"} |-> geologyCodebook.bins[ch]]]

EmptyTiltBins == [geologyCodebook EXCEPT !.bins.tilt = <<>>]

\* the geology codebook with other rolling windows
ShortVariance == [geologyCodebook EXCEPT !.windows.variance = 1]

ShortTrend == [geologyCodebook EXCEPT !.windows.trend = 2]

\* the geology codebook with a match value listed twice in the mood rule
RepeatedPair ==
  [geologyCodebook EXCEPT
     !.ncv[1].map = << <<"high", "strained">>, <<"med", "wary">>, <<"high", "frantic">> >>]

CodebookSamples ==
  {geologyCodebook, NoTiltBins, EmptyTiltBins, ShortVariance, ShortTrend, RepeatedPair}

BinLists ==
  { <<Bin("a", 5), Bin("b", 10)>>,
    <<Bin("only", 3)>>,
    <<Bin("quiet", 0), Bin("active", 7), Bin("violent", 9)>> }

EngineInit ==
  /\ Init
  /\ rawCSV = <<>>
  /\ engaged = AllEngaged

EngineFrame ==
  UNCHANGED << rawCSV, engaged, status, narrative, states, pc, out, runs, runVars >>

ComputeStatesCall ==
  /\ call = NoCall
  /\ \E rs \in EngineRows : \E cb \in CodebookSamples :
       call' = [fn |-> "computeStates", rows |-> rs, codebook |-> cb]
  /\ ret' = NoCall
  /\ EngineFrame

ComputeStatesReturn ==
  /\ call.fn = "computeStates"
  /\ ret = NoCall
  /\ ret' = IF computeStatesThrows(call.rows, call.codebook)
            THEN [threw |-> TRUE, value |-> <<>>]
            ELSE [threw |-> FALSE, value |-> computeStates(call.rows, call.codebook)]
  /\ UNCHANGED call
  /\ EngineFrame

BinValueCall ==
  /\ call = NoCall
  /\ \E bins \in BinLists : \E v \in (-1)..MaxValue :
       call' = [fn |-> "binValue", bins |-> bins, v |-> v]
  /\ ret' = NoCall
  /\ EngineFrame

BinValueReturn ==
  /\ call.fn = "binValue"
  /\ ret = NoCall
  /\ \E id \in {binValue(call.bins, call.v)} :
       ret' = [threw |-> id = TypeError, value |-> id]
  /\ UNCHANGED call
  /\ EngineFrame

RollingCall ==
  /\ call = NoCall
  /\ \E rs \in EngineRows : \E idx \in 0..(Len(rs) - 1) : \E n \in 1..MaxWindow :
       \E key \in {"seismic", "tilt"} :
         call' = [fn |-> "rolling", rows |-> rs, idx |-> idx, n |-> n, key |-> key]
  /\ ret' = NoCall
  /\ EngineFrame

RollingReturn ==
  /\ call.fn = "rolling"
  /\ ret = NoCall
  /\ ret' = [threw |-> FALSE, value |-> rolling(call.rows, call.idx, call.n, call.key)]
  /\ UNCHANGED call
  /\ EngineFrame

SelectFunctionsCall ==
  /\ call = NoCall
  /\ \E rs \in EngineRows : \E j \in DOMAIN rs :
       call' = [fn |-> "selectFunctions",
                state |-> computeStates(rs, geologyCodebook)[j],
                codebook |-> geologyCodebook]
  /\ ret' = NoCall
  /\ EngineFrame

SelectFunctionsReturn ==
  /\ call.fn = "selectFunctions"
  /\ ret = NoCall
  /\ ret' = [threw |-> FALSE, value |-> selectFunctions(call.state, call.codebook)]
  /\ UNCHANGED call
  /\ EngineFrame

EngineNext ==
  \/ ComputeStatesCall \/ ComputeStatesReturn
  \/ BinValueCall \/ BinValueReturn
  \/ RollingCall \/ RollingReturn
  \/ SelectFunctionsCall \/ SelectFunctionsReturn

EngineSpec == EngineInit /\ [][EngineNext]_vars

(***************************************************************************)
(* chooseBeatsPlanned applied on its own: every regime, token sets from    *)
(* empty to full, and wanted counts beyond the size of the pool.           *)
(***************************************************************************)
\* largest wanted count of a planner call
MaxWant == 16

\* the states of a long table, each merged with its ledger
PlannerStates ==
  LET ss == computeStates(rowsMemo(LongText(0, MaxLongRows), AllEngaged), geologyCodebook)
  IN { mergeLedger(ss[j], deriveLedger(j - 1, Len(ss), ss[j])) : j \in DOMAIN ss }

PlannerTokens ==
  { {}, {"left_road"}, {"left_road", "in_trail"},
    {"left_road", "in_trail", "wet", "low_light", "shaken"} }

PlannerHistories ==
  { <<>>, <<"fn.eat", "fn.road_walk", "fn.repack", "fn.light_fails", "fn.noise_close">> }

PlannerInit ==
  /\ Init
  /\ rawCSV = <<>>
  /\ engaged = AllEngaged

PlannerCall ==
  /\ call = NoCall
  /\ \E r \in Regime : \E s \in PlannerStates : \E tk \in PlannerTokens :
     \E h \in PlannerHistories : \E want \in 0..MaxWant :
       call' = [fn |-> "chooseBeatsPlanned", regime |-> r, s |-> s, tokens |-> tk,
                recentBeats |-> h, want |-> want]
  /\ ret' = NoCall
  /\ EngineFrame

PlannerReturn ==
  /\ call.fn = "chooseBeatsPlanned"
  /\ ret = NoCall
  /\ ret' = chooseBeatsPlanned(call.regime, call.s, call.tokens, call.recentBeats,
                               call.want)
  /\ UNCHANGED call
  /\ EngineFrame

PlannerNext == PlannerCall \/ PlannerReturn

PlannerSpec == PlannerInit /\ [][PlannerNext]_vars

(***************************************************************************)
(* pickSideQuestPath applied on its own: slices of calm and shaking states *)
(* of every length up to MaxSteps, the empty slice included.               *)
(***************************************************************************)
\* largest slice length of a side-quest call
MaxSteps == 6

\* seismic variance at the threshold 0.006 and just above it
SliceStates == { [var |-> [seismic |-> Frac(60, 1)]], [var |-> [seismic |-> Frac(61, 1)]] }

Slices == UNION { [1..n -> SliceStates] : n \in 0..MaxSteps }

SideQuestInit ==
  /\ Init
  /\ rawCSV = <<>>
  /\ engaged = AllEngaged

\* onGenerate passes Math.max(1, sqEnd - sqStart): at least one step
SideQuestCall ==
  /\ call = NoCall
  /\ \E steps \in 1..MaxSteps : \E sList \in Slices :
       call' = [fn |-> "pickSideQuestPath", steps |-> steps, sList |-> sList]
  /\ ret' = NoCall
  /\ EngineFrame

SideQuestReturn ==
  /\ call.fn = "pickSideQuestPath"
  /\ ret = NoCall
  /\ ret' = [value |-> pickSideQuestPath(call.steps, call.sList)]
  /\ UNCHANGED call
  /\ EngineFrame

SideQuestNext == SideQuestCall \/ SideQuestReturn

SideQuestSpec == SideQuestInit /\ [][SideQuestNext]_vars

(***************************************************************************)
(* One classification step applied on its own: a running vector, an        *)
(* instantaneous vector, their mix and its argmax.                         *)
(***************************************************************************)
\* largest entry of a running vector before normalisation
MaxMix == 2

\* running vectors: every normalised vector with entries 0..MaxMix
MixPrev == {normalizeWeights(Weights(num, 10)) : num \in [Regime -> 0..MaxMix]}

\* instantaneous vectors: those of the sample states, and the normalised
\* 0/1 vectors, which hold every pattern of ties
MixNow ==
  {instantRegimeWeights(s) : s \in PlannerStates}
    \cup {normalizeWeights(Weights(num, 10)) : num \in [Regime -> {0, 1}]}

MixInit ==
  /\ Init
  /\ rawCSV = <<>>
  /\ engaged = AllEngaged

MixCall ==
  /\ call = NoCall
  /\ \E prev \in MixPrev : \E now \in MixNow :
       call' = [fn |-> "mixWeights", prev |-> prev, now |-> now]
  /\ ret' = NoCall
  /\ EngineFrame

\* lines 524-525: const mixed = mixWeights(prevWeights, inst, 0.7);
\* regime = topRegime(mixed)
MixReturn ==
  /\ call.fn = "mixWeights"
  /\ ret = NoCall
  /\ \E mix \in {mixWeights(call.prev, call.now, Inertia)} :
       ret' = [mixed |-> mix, regime |-> topRegime(mix)]
  /\ UNCHANGED call
  /\ EngineFrame

MixNext == MixCall \/ MixReturn

MixSpec == MixInit /\ [][MixNext]_vars

(***************************************************************************)
(* Properties.                                                             *)
(***************************************************************************)
\* the run is inside the body of step i: after BeginStep, before EndStep
InStep == pc \in {"pick", "emit", "intent"}

\* the classified regime of the current step: argmax before any steering
Classified == topRegime(mixed)

\* the lines the current step has added so far
StepLines == SubSeq(out, stepStart + 1, Len(out))

BridgeLines == {j \in DOMAIN StepLines : StepLines[j].kind = "bridge"}

\* the candidates of the current step: the feasible beats of its start
StepFeasible == Range(beats) \cup {cands[j].fn : j \in DOMAIN cands}

\* C1: two runs on the same text, codebook and surface table produce the
\* same sequence of lines; the later run reuses the states whose NCV the
\* earlier run already merged with time and terrain.
C1_Deterministic ==
  [][(pc = "loop" /\ pc' = "idle" /\ runs >= 2) => narrative' = narrative]_vars

C1_Witness ==
  /\ runs = 2
  /\ pc = "idle"
  /\ status = "Generated"
  /\ \E j \in DOMAIN narrative : narrative[j].kind = "surface"
  /\ Len(states) = MaxRows

\* C2: every beat the planner selects has all its precondition tokens in the
\* token set at that moment; the token set holds only left_road and tokens
\* granted by beats selected earlier in the run; cross_danger is never selected
\* before crossing, repair_boot never before cross_danger.
C2_TokenGating ==
  /\ planned # <<>> => hasAll(pickTokens, BEAT_RULES_needs(planned[Len(planned)]))
  /\ tokens \subseteq
       {"left_road"} \cup UNION {BEAT_RULES_gives(planned[j]) : j \in DOMAIN planned}
  /\ \A j \in DOMAIN planned :
       /\ planned[j] = "fn.cross_danger" =>
            \E k \in 1..(j - 1) : planned[k] = "fn.crossing"
       /\ planned[j] = "fn.repair_boot" =>
            \E k \in 1..(j - 1) : planned[k] = "fn.cross_danger"

C2_Witness ==
  /\ planned # <<>>
  /\ planned[Len(planned)] = "fn.cross_danger"
  /\ "wet" \in pickTokens

\* C3 (as claimed): within a step, the tokens granted by the beats already
\* selected count towards the feasibility of the later picks: every palette
\* beat whose preconditions hold in the current token set, and that is not
\* yet selected, is among the candidates of the remaining picks.
C3_EffectsCountInStep ==
  pc = "pick" =>
    \A fn \in Range(ALL_BEATS(regime)) \ Range(beats) :
      hasAll(tokens, BEAT_RULES_needs(fn)) => \E j \in DOMAIN cands : cands[j].fn = fn

\* the score the planner gives beat g at the current step, written out:
\* 0.4 of the score when g is among the last 4 emitted beats
PlannerScore(g) ==
  IF Includes(LastK(recentBeats, 4), g)
  THEN (scoreBeat(g, regime, states[i + 1]) * 4) \div 10
  ELSE scoreBeat(g, regime, states[i + 1])

\* C4: a beat among the last 4 emitted beats is selected again only if no
\* other feasible beat of the step scores higher than its penalised score;
\* otherwise a selected beat differs from the 4 beats selected before it.
C4_Cooldown ==
  (pc \in {"pick", "emit"} /\ emitted = 0 /\ beats # <<>>) =>
    LET fn == beats[Len(beats)]
        k == Len(planned)
        again ==
          \/ Includes(LastK(recentBeats, 4), fn)
          \/ \E j \in 1..(k - 1) : j >= k - 4 /\ planned[j] = fn
    IN again =>
         \A g \in StepFeasible \ {fn} :
           PlannerScore(g) <= (scoreBeat(fn, regime, states[i + 1]) * 4) \div 10

\* the cooldown acted: a candidate of the step was among the last 4 emitted
\* beats and was passed over
C4_Witness ==
  /\ pc = "emit"
  /\ emitted = 0
  /\ Len(beats) = Want
  /\ \E j \in DOMAIN cands : Includes(LastK(recentBeats, 4), cands[j].fn)

\* the regime selected for the previous step; before step 0 the argmax of
\* the uniform vector
SelectedBefore == IF i = 0 THEN topRegime(Uniform) ELSE usedRegimes[i]

\* C5: with prev the regime selected for the previous step and cur the
\* classified regime: when prev # cur and (prev, cur) is listed, exactly one
\* bridge line is added, the literal of that pair, before the beat lines of
\* the step; otherwise the step adds no bridge line.
C5_BridgeAllowList ==
  InStep =>
    IF \E e \in ALLOWED_BRIDGES : e[1] = SelectedBefore /\ e[2] = Classified
    THEN /\ SelectedBefore # Classified
         /\ BridgeLines = {1}
         /\ \E e \in ALLOWED_BRIDGES :
              /\ e[1] = SelectedBefore
              /\ e[2] = Classified
              /\ StepLines[1] = BRIDGE_FNS[e[3]]
    ELSE BridgeLines = {}

C5_Witness ==
  /\ pc = "intent"
  /\ i >= 1
  /\ BridgeLines = {1}
  /\ Len(StepLines) >= 1 + Want

\* C6 (as claimed): a bridge line is inserted at step i only if the
\* classified regime of step i differs from the classified regime of step
\* i-1 (the argmax of the running weights carried from that step).
C6_BridgeOnlyOnClassifiedChange ==
  (InStep /\ i >= 1 /\ BridgeLines # {}) => Classified # topRegime(prevWeights)

\* C6 (amended): a bridge line is inserted at step i only if the classified
\* regime of step i differs from the regime step i-1 planned with (its
\* classified regime after side-quest steering), and then for a listed pair.
C6_BridgeOnlyOnUsedChange ==
  (InStep /\ i >= 1 /\ BridgeLines # {}) =>
    /\ Classified # usedRegimes[i]
    /\ \E e \in ALLOWED_BRIDGES : e[1] = usedRegimes[i] /\ e[2] = Classified

\* a bridge between two steps of the same classification
C6_Witness ==
  /\ InStep
  /\ i >= 1
  /\ BridgeLines # {}
  /\ Classified = topRegime(prevWeights)
  /\ usedRegimes[i] # Classified

\* C7: steering comes before planning: every selected beat and every
\* candidate of a step belongs to the palette of the regime the step uses
\* after steering.
C7_PaletteOfSteeredRegime ==
  InStep =>
    /\ regime = sideQuestSteer(i, sqStart, sqEnd, sqPath, Classified)
    /\ StepFeasible \subseteq Range(PaletteBeats(regime))

C7_Witness ==
  /\ pc = "emit"
  /\ regime # Classified
  /\ Len(beats) = Want

\* C8: the running weights have the five regime keys and sum to 1, from
\* the uniform vector before step 0 on (a weight is a natural numerator over
\* a positive denominator, so it is at least 0).
WellFormedWeights(w) ==
  /\ DOMAIN w.n = Regime
  /\ w.d # <<>>
  /\ WeightSum(w) = w.d

C8_WeightsNormalized ==
  /\ WellFormedWeights(prevWeights)
  /\ WellFormedWeights(mixed)
  /\ (pc = "loop" /\ i = 0) => prevWeights = Uniform

C8_Witness ==
  /\ pc = "loop"
  /\ i = MaxRows
  /\ \E k \in Regime : ~SameWeight(prevWeights, Uniform, k)

\* the sum of the contributions of a probe vector
RECURSIVE ProbeSum(_, _)
ProbeSum(num, ks) ==
  IF ks = <<>> THEN 0
  ELSE (IF ks[1] \in DOMAIN num THEN num[ks[1]] ELSE 0) + ProbeSum(num, Tail(ks))

ProbeAt(num, k) == IF k \in DOMAIN num THEN num[k] ELSE 0

\* C9: normalizeWeights returns the uniform vector when the contributions
\* sum to 0, otherwise every weight divided by the sum; the result never
\* sums to 0.
C9_NormalizeWeights ==
  ret # NoCall =>
    LET sum == ProbeSum(call.num, REGIME_LIST)
    IN /\ DOMAIN ret.n = Regime
       /\ sum = 0 => \A k \in Regime : ret.n[k] = BigOf(1) /\ ret.d = BigOf(5)
       /\ sum > 0 =>
            \A k \in Regime :
              BigTimes(ret.n[k], sum) = BigTimes(ret.d, ProbeAt(call.num, k))
       /\ WeightSum(ret) # <<>>
       /\ ret.d # <<>>

C9_Witness ==
  /\ ret # NoCall
  /\ ProbeSum(call.num, REGIME_LIST) = 0
  /\ DOMAIN call.num = Regime

\* C10 (as claimed): with an empty text the row sequence is empty and a
\* press of Generate appends nothing, leaves the narrative as it was and
\* reports 'No data detected'.
C10_EmptyTextNoRun ==
  (rawCSV = <<>> /\ runs >= 1) =>
    /\ rows = <<>>
    /\ status = "No data detected"
    /\ out = <<>>
    /\ narrative = <<>>

\* the call in progress has returned (or thrown)
Returned(fn) == call.fn = fn /\ ret # NoCall

\* C11 (as claimed): computeStates never fails when a channel of the
\* codebook has no bin list, or an empty one: the bin of that channel is
\* absent from every state and the other fields are derived.
C11_ComputeStatesTotal ==
  Returned("computeStates") =>
    /\ ~ret.threw
    /\ Len(ret.value) = Len(call.rows)
    /\ \A j \in DOMAIN ret.value : \A ch \in Range(call.codebook.channels) :
         /\ ch \in DOMAIN ret.value[j].trend
         /\ ch \in DOMAIN ret.value[j].var
         /\ (ch \notin DOMAIN call.codebook.bins \/ call.codebook.bins[ch] = <<>>)
              => ch \notin DOMAIN ret.value[j].bins

\* the bin a threshold expression reads, by signal name
SignalChannel ==
  [ sig \in {"temp.bin", "seismic.bin", "tilt.bin", "gas_flux.bin"} |->
      CASE sig = "temp.bin" -> "temp"
        [] sig = "seismic.bin" -> "seismic"
        [] sig = "tilt.bin" -> "tilt"
        [] sig = "gas_flux.bin" -> "gas_flux" ]

\* the rule's expression evaluates, and evaluates to true
RuleTrue(rule, state) ==
  /\ rule.if.op = "eq"
  /\ rule.if.sig \in DOMAIN SignalChannel
  /\ SignalChannel[rule.if.sig] \in DOMAIN state.bins
  /\ state.bins[SignalChannel[rule.if.sig]] = rule.if.val

RECURSIVE FunctionsOfRules(_, _, _)
\* the functions of the true rules among rules k.., in rule and list order
FunctionsOfRules(rules, state, k) ==
  IF k > Len(rules) THEN <<>>
  ELSE (IF RuleTrue(rules[k], state) THEN rules[k].then ELSE <<>>)
       \o FunctionsOfRules(rules, state, k + 1)

\* C12: a threshold rule whose expression fails to evaluate contributes no
\* function and stops neither the later rules nor the call; the functions
\* of the rules that evaluate true are returned in rule order, each rule's
\* functions in their listed order.
C12_RuleFailureIsLocal ==
  Returned("selectFunctions") =>
    LET rules == call.codebook.functions.thresholds
        want == FunctionsOfRules(rules, call.state, 1)
    IN /\ ~ret.threw
       /\ Len(ret.value) = Len(want)
       /\ \A j \in DOMAIN want : ret.value[j].fn = want[j]
       /\ \A k \in DOMAIN rules :
            (rules[k].if.op # "eq" /\ \A m \in DOMAIN rules : m # k => ~RuleTrue(rules[m], call.state))
              => ret.value = <<>>

\* rules before and after the failing rule fired
C12_Witness ==
  /\ Returned("selectFunctions")
  /\ call.codebook.functions.thresholds[2].if.op = "bad"
  /\ [j \in DOMAIN ret.value |-> ret.value[j].fn]
       = <<"fn.cross_danger", "fn.chase", "fn.omen", "fn.unwritten">>

\* the beats of the current step whose text resolves to the empty string
EmptyBeats ==
  {j \in 1..emitted : pickSurfaceText(beats[j], states[i + 1].NCV) = EmptyText}

\* C13: no empty line is ever appended to the output: a beat or
\* threshold-channel identifier whose text resolves to the empty string adds
\* no line, a bridge line is always its literal, and the run goes on.
C13_NoEmptyLine ==
  /\ \A j \in DOMAIN out : out[j] # EmptyText
  /\ \A j \in DOMAIN narrative : narrative[j] # EmptyText
  /\ InStep =>
       Len(StepLines) = Cardinality(BridgeLines) + emitted - Cardinality(EmptyBeats)

\* a beat of the last step resolved to the empty string and was skipped;
\* the run went on to publish its lines
C13_Witness ==
  /\ pc = "idle"
  /\ status = "Generated"
  /\ i = Len(states)
  /\ i >= 2
  /\ \E j \in DOMAIN beats : pickSurfaceText(beats[j], states[i].NCV) = EmptyText
  /\ narrative[Len(narrative)] = ClosingAnchor
  /\ Len(narrative) < 4 + Len(planned) + Len(states)

\* the lines of the two gates, resolved as onGenerate resolves them
CallLine ==
  LET text == pickSurfaceText("fn.call", [mood |-> "reflective"])
  IN IF text = EmptyText THEN DefaultCall ELSE text

ReturnLine ==
  LET text == pickSurfaceText("fn.return", EmptyMap)
  IN IF text = EmptyText THEN DefaultReturn ELSE text

Occurrences(lines, line) == Cardinality({j \in DOMAIN lines : lines[j] = line})

\* C14: for every run over at least one row the output starts with the
\* opening anchor followed by the call line and ends with the return line
\* followed by the closing anchor; call and return are each emitted exactly
\* once, the planner never selecting fn.call or fn.return.
C14_Frame ==
  /\ pc # "idle" =>
       /\ Len(out) >= 2
       /\ out[1] = OpeningAnchor
       /\ out[2] = CallLine
  /\ status = "Generated" =>
       LET n == Len(narrative)
       IN /\ n >= 4
          /\ narrative[1] = OpeningAnchor
          /\ narrative[2] = CallLine
          /\ narrative[n - 1] = ReturnLine
          /\ narrative[n] = ClosingAnchor
          /\ Occurrences(narrative, CallLine) = 1
          /\ Occurrences(narrative, ReturnLine) = 1
          /\ Occurrences(narrative, OpeningAnchor) = 1
          /\ Occurrences(narrative, ClosingAnchor) = 1
  /\ {"fn.call", "fn.return"} \cap (Range(planned) \cup StepFeasible) = {}

C14_Witness ==
  /\ status = "Generated"
  /\ pc = "idle"
  /\ Len(states) = MaxRows
  /\ Len(planned) = Want * MaxRows
  /\ Len(narrative) > 4

\* C15: the token set of a run only grows: it holds left_road from the
\* start of the run, and a token in the set after some beat is in the set
\* after every later beat and step of the run.
C15_TokensOnlyGrow ==
  [][/\ pc # "idle" => tokens \subseteq tokens'
     /\ pc' # "idle" => "left_road" \in tokens']_vars

C15_Witness ==
  /\ pc = "loop"
  /\ i = Len(states)
  /\ i >= 3
  /\ {"left_road", "in_trail", "wet", "shaken"} \subseteq tokens

\* the beats emitted so far in this run, in emission order
EmittedBeats == SubSeq(planned, 1, Len(planned) - Len(beats) + emitted)

\* C16: after every emitted beat the beat history holds at most 16 entries
\* and equals the most recent (up to 16) emitted beats in emission order.
C16_HistoryCap ==
  pc # "idle" =>
    LET n == Len(EmittedBeats)
        from == IF n > 16 THEN n - 16 ELSE 0
    IN /\ Len(recentBeats) <= 16
       /\ recentBeats = [j \in 1..(n - from) |-> EmittedBeats[from + j]]

\* the oldest entries have been dropped
C16_Witness ==
  /\ pc = "emit"
  /\ Len(EmittedBeats) > 18
  /\ Len(recentBeats) = 16

\* the side-quest node of step i of an n-step run, "" when the step is
\* outside the slice or past the end of the path
NodeOfStep ==
  LET n == Len(states)
      lo == (15 * n) \div 100
      hi == (85 * n) \div 100
  IN IF lo <= i /\ i < hi /\ i - lo < Len(sqPath) THEN sqPath[i - lo + 1] ELSE ""

BinFor(bins, v) ==
  LET hits == {j \in DOMAIN bins : v <= bins[j].max}
  IN IF hits = {} THEN bins[Len(bins)].id
     ELSE bins[CHOOSE j \in hits : \A k \in hits : j <= k].id

\* C17: for a bin list in ascending max order binValue returns the id of the
\* first bin whose max is at least v, and the id of the last bin when v
\* exceeds every max; with bins a:5, b:10, 5 gives a, 6 gives b and a value
\* above 10 gives b; a raw value that is not a number is binned as 0.
C17_BinValue ==
  /\ Returned("binValue") =>
       /\ ~ret.threw
       /\ ret.value = BinFor(call.bins, call.v)
       /\ call.bins = <<Bin("a", 5), Bin("b", 10)>> =>
            /\ call.v = 5 => ret.value = "a"
            /\ call.v = 6 => ret.value = "b"
            /\ call.v > 10 => ret.value = "b"
  /\ (Returned("computeStates") /\ ~ret.threw) =>
       \A j \in DOMAIN ret.value : \A ch \in DOMAIN ret.value[j].bins :
         LET r == call.rows[j]
             numeric == ch \in DOMAIN r /\ r[ch].t = "num"
         IN ret.value[j].bins[ch] =
              BinFor(call.codebook.bins[ch], IF numeric THEN r[ch].n ELSE 0)

\* a value above every max went to the last bin
C17_Witness ==
  /\ Returned("binValue")
  /\ Len(call.bins) >= 2
  /\ \A j \in DOMAIN call.bins : call.v > call.bins[j].max
  /\ ret.value = call.bins[Len(call.bins)].id

\* the number record j (counted from 0) holds for a key; 0 when it holds none
ValueAt(rs, j, key) ==
  IF key \in DOMAIN rs[j + 1] /\ rs[j + 1][key].t = "num" THEN rs[j + 1][key].n ELSE 0

RECURSIVE SumOfWindow(_, _, _, _, _)
\* the sum of the values (p = 1) or of their squares (p = 2) over records a..b
SumOfWindow(rs, key, a, b, p) ==
  IF a > b THEN 0
  ELSE (IF p = 1 THEN ValueAt(rs, a, key) ELSE ValueAt(rs, a, key) * ValueAt(rs, a, key))
       + SumOfWindow(rs, key, a + 1, b, p)

\* C18: for index i and window w the rolling statistics are those of the
\* records max(0, i-w+1)..i: the mean, the population variance, and the
\* trend last minus first when the window has more than one record, else 0;
\* at index 0 the mean is the value of record 0, variance and trend are 0.
C18_RollingWindow ==
  Returned("rolling") =>
    LET lo == IF call.idx - call.n + 1 > 0 THEN call.idx - call.n + 1 ELSE 0
        len == call.idx - lo + 1
        sum == SumOfWindow(call.rows, call.key, lo, call.idx, 1)
        squares == SumOfWindow(call.rows, call.key, lo, call.idx, 2)
        r == ret.value
    IN /\ r.mean.d > 0 /\ r.variance.d > 0
       /\ r.mean.n * len = sum * r.mean.d
       \* population variance: (len * sum of squares - sum^2) / len^2
       /\ r.variance.n * len * len = (len * squares - sum * sum) * r.variance.d
       /\ r.trend = IF len > 1
                    THEN ValueAt(call.rows, call.idx, call.key)
                           - ValueAt(call.rows, lo, call.key)
                    ELSE 0
       /\ call.idx = 0 =>
            /\ r.mean.n = ValueAt(call.rows, 0, call.key) * r.mean.d
            /\ r.variance.n = 0
            /\ r.trend = 0

\* the window left the first record behind and the values in it differ
C18_Witness ==
  /\ Returned("rolling")
  /\ call.idx >= call.n
  /\ call.n >= 2
  /\ ret.value.variance.n > 0
  /\ ret.value.trend # 0

\* step i has just classified and steered; no beat is picked yet
StepBegun == InStep /\ beats = <<>>

\* the instantaneous weights of the current step
Instant == instantRegimeWeights(states[i + 1])

\* C20: at each step the running weight of every regime is 0.7 times its
\* previous running weight plus 0.3 times its instantaneous weight,
\* re-normalised; the vector before step 0 is uniform, and the mixed vector,
\* which steering does not change, is the one carried to the next step.
C20_Mixing ==
  /\ (pc = "loop" /\ i = 0) => \A k \in Regime : SameWeight(prevWeights, Uniform, k)
  /\ StepBegun =>
       \* both vectors sum to 1, so does 0.7 prev + 0.3 inst:
       \* mixed[k] = (7 prev.n[k] inst.d + 3 inst.n[k] prev.d) / (10 prev.d inst.d)
       \E inst \in {Instant} :
       \E den \in {BigTimes(BigMul(prevWeights.d, inst.d), 10)} :
         \A k \in Regime :
           BigMul(mixed.n[k], den)
             = BigMul(mixed.d,
                      BigAdd(BigTimes(BigMul(prevWeights.n[k], inst.d), 7),
                             BigTimes(BigMul(inst.n[k], prevWeights.d), 3)))
  /\ (pc = "loop" /\ i >= 1) => prevWeights = mixed

\* the weights were carried past a step whose regime was steered
C20_Witness ==
  /\ pc = "loop"
  /\ i >= 2
  /\ prevWeights = mixed
  /\ usedRegimes[i] # topRegime(mixed)
  /\ \E k \in Regime : ~SameWeight(mixed, Uniform, k)

\* the place of a regime in the declaration order
Place(k) == CHOOSE j \in DOMAIN REGIME_LIST : REGIME_LIST[j] = k

\* C21: the classified regime is a regime of maximum weight, and among
\* several regimes of maximum weight the first in the declaration order
\* horror, trickster, thriller, fairytale, shamanic.
C21_ArgmaxFirstWins ==
  (call.fn = "topRegime" /\ ret # NoCall) =>
    /\ REGIME_LIST = <<"horror", "trickster", "thriller", "fairytale", "shamanic">>
    /\ ret.value \in Regime
    /\ \A k \in Regime :
         /\ call.num[k] <= call.num[ret.value]
         /\ call.num[k] = call.num[ret.value] => Place(ret.value) <= Place(k)

\* three regimes tie for the maximum and the first of them is returned
C21_Witness ==
  /\ call.fn = "topRegime"
  /\ ret # NoCall
  /\ ret.value = "trickster"
  /\ call.num["trickster"] = call.num["fairytale"]
  /\ call.num["trickster"] = call.num["shamanic"]
  /\ call.num["trickster"] > BigBase

\* the beats of a regime's pool whose needs the tokens of the call satisfy
CallFeasible ==
  {fn \in Range(PaletteBeats(call.regime)) : BEAT_RULES_needs(fn) \subseteq call.tokens}

\* C22: chooseBeatsPlanned returns min(want, number of feasible beats)
\* distinct feasible beats: all of them when fewer than want are feasible,
\* none (and the tokens unchanged) when none is feasible.
C22_PlannerCount ==
  Returned("chooseBeatsPlanned") =>
    /\ Len(ret.out) = Min(call.want, Cardinality(CallFeasible))
    /\ \A j, k \in DOMAIN ret.out : j # k => ret.out[j] # ret.out[k]
    /\ Range(ret.out) \subseteq CallFeasible
    /\ Cardinality(CallFeasible) < call.want => Range(ret.out) = CallFeasible
    /\ ret.out = <<>> => ret.tokens = call.tokens

\* fewer beats than wanted were feasible and all of them were returned
C22_Witness ==
  /\ Returned("chooseBeatsPlanned")
  /\ call.want = 12
  /\ Cardinality(CallFeasible) = 9
  /\ Len(ret.out) = 9
  /\ ret.tokens # call.tokens

\* the score the planner sorts by: scoreBeat, times 0.4 for a recent beat
CallScore(fn) ==
  LET sc == scoreBeat(fn, call.regime, call.s)
  IN IF \E j \in DOMAIN call.recentBeats :
          j > Len(call.recentBeats) - 4 /\ call.recentBeats[j] = fn
     THEN (sc * 4) \div 10 ELSE sc

\* the categories of a palette in pool order
PoolOrder(r) ==
  PALETTE[r].movement \o PALETTE[r].environment \o PALETTE[r].challenge
    \o PALETTE[r].support \o PALETTE[r].maintenance \o PALETTE[r].reflection

\* the position of the first occurrence of a beat in the pool of the call
PoolPlace(fn) ==
  CHOOSE j \in DOMAIN PoolOrder(call.regime) :
    /\ PoolOrder(call.regime)[j] = fn
    /\ \A k \in 1..(j - 1) : PoolOrder(call.regime)[k] # fn

\* a goes before b: higher score, or equal score and earlier in the pool
Before(a, b) ==
  \/ CallScore(a) > CallScore(b)
  \/ CallScore(a) = CallScore(b) /\ PoolPlace(a) < PoolPlace(b)

\* C23: the selected beats are the highest-scored feasible beats in
\* descending score order; no unselected feasible beat scores strictly
\* higher than a selected one, and beats of equal score are taken in the
\* order of the candidate pool.
C23_HighestScoredFirst ==
  Returned("chooseBeatsPlanned") =>
    /\ \A j, k \in DOMAIN ret.out : j < k => Before(ret.out[j], ret.out[k])
    /\ \A g \in CallFeasible \ Range(ret.out) : \A j \in DOMAIN ret.out :
         /\ CallScore(g) <= CallScore(ret.out[j])
         /\ Before(ret.out[j], g)

\* three beats were selected: the first by a strictly higher score, the
\* last on a tie with a feasible beat that stayed out
C23_Witness ==
  /\ Returned("chooseBeatsPlanned")
  /\ call.want = 3
  /\ Len(ret.out) = 3
  /\ CallScore(ret.out[1]) > CallScore(ret.out[2])
  /\ \E g \in CallFeasible \ Range(ret.out) :
       /\ CallScore(g) = CallScore(ret.out[3])
       /\ PoolPlace(g) > PoolPlace(ret.out[3])
  /\ \E g \in CallFeasible : CallScore(g) < scoreBeat(g, call.regime, call.s)

\* C24: pickSideQuestPath ends within `steps` iterations, also on the
\* SQ.trials self-loop, and its path starts with SQ.threshold, holds SQ.exit
\* exactly once, as its last node, and has at most steps + 1 nodes.
C24_SideQuestPathBounded ==
  Returned("pickSideQuestPath") =>
    LET path == ret.value
    IN /\ path # <<>>
       /\ path[1] = "SQ.threshold"
       /\ path[Len(path)] = "SQ.exit"
       /\ Cardinality({j \in DOMAIN path : path[j] = "SQ.exit"}) = 1
       /\ Len(path) <= call.steps + 1

\* the variance never passed the threshold: the walk stayed on SQ.trials
\* until the slice was used up
C24_Witness ==
  /\ Returned("pickSideQuestPath")
  /\ call.steps = 5
  /\ ret.value = <<"SQ.threshold", "SQ.trials", "SQ.trials", "SQ.trials",
                   "SQ.trials", "SQ.exit">>

\* a listed edge of the graph
Edge(a, b) == Includes(SQ_EDGES[a], b)

\* C25 (as claimed): every pair of consecutive nodes of the path, the final
\* SQ.exit included, is an edge listed in SQ_EDGES.
C25_WalkInGraph ==
  Returned("pickSideQuestPath") =>
    \A j \in 1..(Len(ret.value) - 1) : Edge(ret.value[j], ret.value[j + 1])

\* C25 (amended): every pair of consecutive nodes before the final SQ.exit
\* is an edge listed in SQ_EDGES; the step into SQ.exit is an edge exactly
\* when the walk reached SQ.boon, and otherwise SQ.exit is appended after
\* the last node the slice length allowed.
C25_WalkUntilExhausted ==
  Returned("pickSideQuestPath") =>
    LET path == ret.value
        n == Len(path)
    IN /\ \A j \in 1..(n - 2) : Edge(path[j], path[j + 1])
       /\ Edge(path[n - 1], path[n]) <=> path[n - 1] = "SQ.boon"
       /\ path[n - 1] # "SQ.boon" => n = call.steps + 1

\* the slice ran out at SQ.inmost, after the trials -> inmost edge fired
C25_Witness ==
  /\ Returned("pickSideQuestPath")
  /\ call.steps = 3
  /\ ret.value = <<"SQ.threshold", "SQ.trials", "SQ.inmost", "SQ.exit">>

\* the codebook of the call with another variance window
VarianceWindow(w) == [call.codebook EXCEPT !.windows.variance = w]

\* C26: the derived states, and the functions the threshold rules select
\* from them, do not depend on windows.variance: codebooks that differ only
\* in that window yield identical states, because windows.trend is the
\* window of both the rolling trend and the rolling variance.
C26_VarianceWindowUnused ==
  (Returned("computeStates") /\ ~ret.threw) =>
    \A w \in 1..MaxWindow :
      /\ computeStates(call.rows, VarianceWindow(w)) = ret.value
      /\ \A j \in DOMAIN ret.value :
           selectFunctions(ret.value[j], VarianceWindow(w))
             = selectFunctions(ret.value[j], call.codebook)

\* states with a non-zero variance were derived under a trend window of 2
\* and a variance window of 5; the trend window does change them
C26_Witness ==
  /\ Returned("computeStates")
  /\ ~ret.threw
  /\ call.codebook.windows = [trend |-> 2, variance |-> 5]
  /\ Len(call.rows) = 3
  /\ ret.value[3].var["seismic"] # Zero
  /\ computeStates(call.rows, [call.codebook EXCEPT !.windows.trend = 5]) # ret.value

\* the positions of the pairs of a rule whose match value is the tag
Matches(map, tag) == {k \in DOMAIN map : map[k][1] = tag}

\* C27: for each NCV rule the label is that of the first pair of the rule's
\* list whose match value equals the resolved source tag, and the tag
\* itself, unchanged, when no pair matches.
C27_NcvFirstPair ==
  (Returned("computeStates") /\ ~ret.threw) =>
    \A j \in DOMAIN ret.value : \A r \in DOMAIN call.codebook.ncv :
      LET e == call.codebook.ncv[r]
          tag == SourceTag(ret.value[j], e.from)
          hits == Matches(e.map, tag)
      IN /\ e.key \in DOMAIN ret.value[j].NCV
         /\ hits = {} => ret.value[j].NCV[e.key] = tag
         /\ hits # {} =>
              \E k \in hits : /\ \A m \in hits : k <= m
                               /\ ret.value[j].NCV[e.key] = e.map[k][2]

\* a tag matched by two pairs took the label of the first, and a tag that
\* no pair matches was kept
C27_Witness ==
  /\ Returned("computeStates")
  /\ ~ret.threw
  /\ call.codebook = RepeatedPair
  /\ \E j \in DOMAIN ret.value :
       /\ SourceTag(ret.value[j], <<"seismic", "var">>) = "high"
       /\ ret.value[j].NCV["mood"] = "strained"
       /\ ret.value[j].NCV["pov"] = "cool"

\* the functions the threshold rules select for the state of step i
StepFunctions == selectFunctions(states[i + 1], activeCodebook)

\* C28: the threshold-rule channel does not gate: at each step it appends
\* at most one line, the text of the first function selectFunctions returns
\* for the state and nothing if that text is empty, and it changes neither
\* the tokens, the beat history, the running weights nor the regime carried
\* to the next step.
C28_ThresholdChannelNonGating ==
  [][(pc = "intent" /\ pc' = "loop") =>
       /\ tokens' = tokens
       /\ recentBeats' = recentBeats
       /\ mixed' = mixed /\ prevWeights' = mixed
       /\ regime' = regime /\ prevRegime' = regime
       /\ IF StepFunctions = <<>> THEN out' = out
          ELSE LET line == pickSurfaceText(StepFunctions[1].fn, states[i + 1].NCV)
               IN out' = IF line = EmptyText THEN out ELSE Append(out, line)]_vars

\* the channel appended the line of the first of several selected functions,
\* a beat the planner had not chosen, and its effect is not in the tokens
C28_Witness ==
  /\ pc = "loop"
  /\ i >= 1
  /\ Len(intents[i]) >= 2
  /\ intents[i][1].fn = "fn.cross_danger"
  /\ "fn.cross_danger" \notin Range(beats)
  /\ out[Len(out)] = pickSurfaceText("fn.cross_danger", states[i].NCV)
  /\ "shaken" \notin tokens

\* the function whose line the threshold-rule channel added at the step
\* just ended, as a set: empty when the channel added nothing
ChannelFunctions ==
  IF pc = "loop" /\ i >= 1 /\ i <= Len(states) /\ intents[i] # <<>>
     /\ pickSurfaceText(intents[i][1].fn, states[i].NCV) # EmptyText
  THEN {intents[i][1].fn} ELSE {}

\* C29 (as claimed): no line for a beat that has precondition tokens is
\* added, by the planner or by the threshold-rule channel, before all of
\* those tokens are in the token set: a function emitted by a threshold rule
\* is gated like a planned beat.
C29_ChannelGated ==
  /\ planned # <<>> => hasAll(pickTokens, BEAT_RULES_needs(planned[Len(planned)]))
  /\ \A fn \in ChannelFunctions : hasAll(tokens, BEAT_RULES_needs(fn))

\* C30: at step 0 the previous regime of the bridge lookup is horror, the
\* first-wins argmax of the uniform initial vector, so a bridge line comes
\* before the beats of step 0 exactly when the classified regime of step 0
\* is shamanic or thriller.
C30_BridgeAtStepZero ==
  (InStep /\ i = 0) =>
    /\ prevWeights = Uniform
    /\ prevRegime = "horror"
    /\ BridgeLines # {} <=> Classified \in {"shamanic", "thriller"}
    /\ BridgeLines \subseteq {1}
    /\ Classified = "shamanic" =>
         StepLines[1] = Line("bridge", "bridge.underworld_mouth")
    /\ Classified = "thriller" =>
         StepLines[1] = Line("bridge", "bridge.fight_or_flee")

\* step 0 was classified shamanic and opens with the bridge line
C30_Witness ==
  /\ pc = "intent"
  /\ i = 0
  /\ Classified = "shamanic"
  /\ BridgeLines = {1}
  /\ Len(StepLines) >= 1 + Want

\* the slice offsets k >= 1 whose state has seismic variance above 0.006
HighOffsets ==
  {k \in 1..(sqEnd - sqStart - 1) : FracGT(VarOf(states[sqStart + k + 1], "seismic"), 60)}

\* the steps of the run that the path sends to SQ.inmost
InmostSteps ==
  {j \in sqStart..(sqEnd - 1) : j - sqStart < Len(sqPath) /\ sqPath[j - sqStart + 1] = "SQ.inmost"}

\* the step after the first high offset, when it lies inside the slice
StepAfterFirstHigh ==
  IF HighOffsets = {} THEN {}
  ELSE LET k == CHOOSE k \in HighOffsets : \A m \in HighOffsets : k <= m
       IN {j \in {sqStart + k + 1} : j < sqEnd}

\* C31: SQ.inmost occurs at most once in the side-quest path, so at most
\* one step of a run is forced to shamanic: the in-slice step right after
\* the first slice offset k >= 1 whose state has seismic variance above
\* 0.006; no step is forced when that step is outside the slice or no such
\* offset exists.
C31_InmostOnce ==
  pc # "idle" =>
    /\ Cardinality({j \in DOMAIN sqPath : sqPath[j] = "SQ.inmost"}) <= 1
    /\ InmostSteps = StepAfterFirstHigh
    /\ InStep => (i \in InmostSteps <=> NodeOfStep = "SQ.inmost")
    /\ (InStep /\ i \in InmostSteps) => regime = "shamanic"
    /\ (InStep /\ i \notin InmostSteps) => regime \in {Classified, "trickster"}

\* a later offset of the slice is high as well, and only the step after the
\* first one plans with the forced regime
C31_Witness ==
  /\ InStep
  /\ Cardinality(HighOffsets) >= 2
  /\ i \in InmostSteps
  /\ regime = "shamanic"
  /\ Classified # "shamanic"

\* the last 4 entries of the beat history
RecentFour ==
  {recentBeats[j] : j \in {k \in DOMAIN recentBeats : k > Len(recentBeats) - 4}}

\* C32: with the palettes and rules of the source and the seed token
\* left_road, every step selects exactly 3 pairwise distinct beats, and none
\* of them is among the last 4 entries of the beat history at the start of
\* the step.
C32_ThreeFreshBeats ==
  /\ pc # "idle" => "left_road" \in tokens
  /\ InStep => cands # <<>> \/ beats # <<>>
  /\ (pc = "emit" /\ emitted = 0) =>
       /\ Len(beats) = 3
       /\ \A j, k \in DOMAIN beats : j # k => beats[j] # beats[k]
       /\ \A j \in DOMAIN beats : beats[j] \notin RecentFour

\* a step that plans with the regime of the step before it: the 4 most
\* recent beats are feasible candidates again and all of them were passed over
C32_Witness ==
  /\ pc = "emit"
  /\ emitted = 0
  /\ i >= 2
  /\ usedRegimes[i] = regime
  /\ Cardinality(RecentFour) = 4
  /\ RecentFour \subseteq {cands[j].fn : j \in DOMAIN cands}
  /\ Len(beats) = 3

\* C33: the side-quest override changes only the regime used for planning
\* and the previous regime remembered for the next bridge lookup: the
\* weight vector carried to the next step is the mix of the previous vector
\* and the instantaneous one, as without the override, and the previous
\* regime of step i+1 is the regime of step i after the override.
C33_OverrideFrame ==
  [][(pc = "intent" /\ pc' = "loop") =>
       \E plain \in {mixWeights(prevWeights, Instant, Inertia)} :
         /\ prevWeights' = plain
         /\ prevRegime' = sideQuestSteer(i, sqStart, sqEnd, sqPath, topRegime(plain))
         /\ prevRegime' = regime
         /\ mixed' = mixed]_vars

\* a step whose regime was overridden has ended: the weights carried are
\* the mixed ones, the regime carried is not their argmax
C33_Witness ==
  /\ pc = "loop"
  /\ i >= 1
  /\ i < Len(states)
  /\ prevWeights = mixed
  /\ prevRegime = usedRegimes[i]
  /\ prevRegime = "shamanic"
  /\ topRegime(prevWeights) # "shamanic"

\* the first regime of the declaration order among those of maximum weight
FirstMax(w) ==
  CHOOSE r \in Regime :
    \A k \in Regime :
      /\ ~BigGT(w.n[k], w.n[r])
      /\ w.n[k] = w.n[r] => Place(r) <= Place(k)

\* C34: inertia never flips an agreed regime: when r is the argmax of the
\* previous running vector and of the instantaneous vector of the step,
\* both with first-wins tie-breaking, r is the classified regime of the step.
C34_AgreedRegimeKept ==
  Returned("mixWeights") =>
    (FirstMax(call.prev) = FirstMax(call.now) => ret.regime = FirstMax(call.prev))

\* the two vectors agree on trickster, each by a tie that first-wins
\* breaks, and the mix is classified trickster
C34_Witness ==
  /\ Returned("mixWeights")
  /\ FirstMax(call.prev) = "trickster"
  /\ FirstMax(call.now) = "trickster"
  /\ call.prev.n["trickster"] = call.prev.n["shamanic"]
  /\ call.now.n["trickster"] = call.now.n["fairytale"]
  /\ BigGT(call.now.n["trickster"], call.now.n["shamanic"])
  /\ ret.regime = "trickster"
  /\ \E k \in Regime : ~SameWeight(ret.mixed, call.prev, k)
====
